---- MODULE Spec2Model ----
(***************************************************************************)
(* super-clone: discovery of remote repositories, the SQLite store of      *)
(* repository records, and the clone / pull commands of src/main.rs.       *)
(*                                                                         *)
(* Option<T> values are sequences of length at most one: << >> is None and *)
(* <<v>> is Some(v).  Strings that the code only compares are TLA+         *)
(* strings; URLs are sequences of text segments, so that starts_with and   *)
(* replace act on them segment by segment.  A filesystem path              *)
(* <base>/<owner>/<name> is the pair <<owner, name>>.                      *)
(***************************************************************************)
EXTENDS Integers, Sequences, FiniteSets, TLC

VARIABLES
    store,      \* the repositories table: a set of rows
    fs,         \* the clone base directory: path -> "absent" | "worktree" | "plain"
    nextId,     \* number of ids (UUIDs) handed out so far
    now,        \* the wall clock read by Utc::now()
    pc,         \* per process: the position of its command
    cmd,        \* per process: the parsed command line (Cli + Config)
    repos,      \* per process: the in-memory Vec<Repository> the command iterates
    idx,        \* per process: index of the current element of repos
    res,        \* per process: Option of the pending Result of clone_repository / pull_repository
    outcome,    \* per process: what the command has printed per repository so far
    creates,    \* per process: number of create_repository calls of the running command
    start,      \* per process: how the discovery of the running sync command went
                \* (requests made, the request that failed, the error) and, when it
                \* succeeded, the row count then and whether every discovered
                \* full_name was stored then
    ucall,      \* Option of the arguments of one call of a function of git/mod.rs
                \* (the single-call specifications)
    uret,       \* Option of what that call returned
    fetch,      \* Option of the locals of one run of the loop of fetch_repos /
                \* fetch_projects, with the remote it talks to
    app         \* Option of the App of the interactive list (tui/mod.rs): repos,
                \* selected, filter, and the key it handled last

vars == <<store, fs, nextId, now, pc, cmd, repos, idx, res, outcome, creates,
          start, ucall, uret, fetch, app>>

-----------------------------------------------------------------------------
(* Bounds of the model *)

\* total number of records all discovery calls together may build
MaxIds == 4

\* number of non-trailing pages a remote of the fetch-loop specification holds
MaxPages == 3

\* number of records on one such page
MaxPageLen == 2

\* last reading of the clock in the specifications where it advances
MaxNow == 2

Procs == {1, 2}

None == << >>

Some(v) == <<v>>

-----------------------------------------------------------------------------
(* models/mod.rs *)

Providers == {"GitHub", "GitLab"}

\* impl Display for Provider
ProviderToString(p) == IF p = "GitHub" THEN "github" ELSE "gitlab"

\* str::to_lowercase on the provider spellings that occur
ToLowercase(s) ==
    CASE s = "GitHub" -> "github"
      [] s = "GITHUB" -> "github"
      [] s = "GitLab" -> "gitlab"
      [] s = "GITLAB" -> "gitlab"
      [] OTHER -> s

\* impl FromStr for Provider: Some(provider), or None for Err("Invalid provider")
ProviderFromStr(s) ==
    CASE ToLowercase(s) = "github" -> Some("GitHub")
      [] ToLowercase(s) = "gitlab" -> Some("GitLab")
      [] OTHER -> None

\* A string, where its letters matter, is the sequence of its characters; a
\* character outside ASCII is named by its code point.
\* char::to_lowercase: the characters a character is lowered to
LowerChar(c) ==
    CASE c = "G" -> <<"g">> [] c = "I" -> <<"i">> [] c = "T" -> <<"t">>
      [] c = "H" -> <<"h">> [] c = "U" -> <<"u">> [] c = "B" -> <<"b">>
      [] c = "L" -> <<"l">> [] c = "A" -> <<"a">> [] c = "S" -> <<"s">>
      [] c = "U+0130" -> <<"i", "U+0307">>
      [] c = "U+212A" -> <<"k">>
      [] OTHER -> <<c>>

\* str::to_lowercase
RECURSIVE to_lowercase(_)
to_lowercase(s) ==
    IF s = << >> THEN << >> ELSE LowerChar(Head(s)) \o to_lowercase(Tail(s))

\* impl Display for Provider, character by character
to_string(p) ==
    IF p = "GitHub" THEN <<"g", "i", "t", "h", "u", "b">>
    ELSE <<"g", "i", "t", "l", "a", "b">>

\* from_str that compares the text as it was typed
from_str_exact(s) ==
    CASE s = <<"g", "i", "t", "h", "u", "b">> -> Some("GitHub")
      [] s = <<"g", "i", "t", "l", "a", "b">> -> Some("GitLab")
      [] OTHER -> None

\* impl FromStr for Provider, character by character: Some(provider), or
\* None for Err("Invalid provider")
from_str(s) ==
    CASE to_lowercase(s) = <<"g", "i", "t", "h", "u", "b">> -> Some("GitHub")
      [] to_lowercase(s) = <<"g", "i", "t", "l", "a", "b">> -> Some("GitLab")
      [] OTHER -> None

\* impl Display for CloneStatus
CloneStatusToString(s) ==
    CASE s = "NotCloned" -> "not_cloned"
      [] s = "Cloning" -> "cloning"
      [] s = "Cloned" -> "cloned"
      [] s = "UpdateAvailable" -> "update_available"
      [] s = "Updating" -> "updating"
      [] s = "Error" -> "error"

\* Repository::new that reads the clock once for each of the two timestamps
RepositoryNewTwoReadings(id, t, name, full_name, owner, provider, https, ssh, description, is_private) ==
    [id |-> id,
     name |-> name,
     full_name |-> full_name,
     owner |-> owner,
     provider |-> ProviderToString(provider),
     clone_url_https |-> https,
     clone_url_ssh |-> ssh,
     description |-> description,
     is_private |-> is_private,
     local_path |-> None,
     status |-> CloneStatusToString("NotCloned"),
     last_pulled_at |-> None,
     created_at |-> t,
     updated_at |-> t + 1]

\* Repository::new; id is the fresh UUID, t the value of Utc::now()
RepositoryNew(id, t, name, full_name, owner, provider, https, ssh, description, is_private) ==
    [id |-> id,
     name |-> name,
     full_name |-> full_name,
     owner |-> owner,
     provider |-> ProviderToString(provider),
     clone_url_https |-> https,
     clone_url_ssh |-> ssh,
     description |-> description,
     is_private |-> is_private,
     local_path |-> None,
     status |-> CloneStatusToString("NotCloned"),
     last_pulled_at |-> None,
     created_at |-> t,
     updated_at |-> t]

\* Repository::update_status
update_status(r, status, t) ==
    [r EXCEPT !.status = CloneStatusToString(status), !.updated_at = t]

\* set_local_path that also marks the record cloned
set_local_path_marks_cloned(r, path, t) ==
    [r EXCEPT !.local_path = Some(path), !.status = CloneStatusToString("Cloned"),
              !.updated_at = t]

\* Repository::set_local_path
set_local_path(r, path, t) ==
    [r EXCEPT !.local_path = Some(path), !.updated_at = t]

\* update_pulled_at that leaves updated_at as it was
update_pulled_at_only(r, t, t2) ==
    [r EXCEPT !.last_pulled_at = Some(t)]

\* Repository::update_pulled_at; t and t2 are its two readings of Utc::now()
update_pulled_at(r, t, t2) ==
    [r EXCEPT !.last_pulled_at = Some(t), !.updated_at = t2]

-----------------------------------------------------------------------------
(* git/mod.rs *)

\* what Utc::now() may return right after it returned t
Later(t) == {u \in t..MaxNow : u <= t + 1} \cup {t}

\* GitOperations::new: no tokens
GitOperationsNew(base_path) ==
    [base_path |-> base_path, github_token |-> None, gitlab_token |-> None]

\* GitOperations::with_tokens
GitOperationsWithTokens(base_path, github_token, gitlab_token) ==
    [base_path |-> base_path, github_token |-> github_token, gitlab_token |-> gitlab_token]

\* str::starts_with("https://")
StartsWithHttps(url) == Len(url) > 0 /\ Head(url) = "https://"

\* str::replace("https://", to): every occurrence is replaced
RECURSIVE ReplaceHttps(_, _)
ReplaceHttps(url, to) ==
    IF url = << >> THEN << >>
    ELSE (IF Head(url) = "https://" THEN to ELSE <<Head(url)>>) \o ReplaceHttps(Tail(url), to)

\* inject_token_into_url without the test of is_private
inject_token_ignoring_privacy(git_ops, url, provider, is_private) ==
    IF ~StartsWithHttps(url) THEN url
    ELSE LET token == IF provider = "GitHub" THEN git_ops.github_token
                      ELSE git_ops.gitlab_token
         IN  IF token # None
             THEN IF provider = "GitHub"
                  THEN ReplaceHttps(url, <<"https://", token[1], "@">>)
                  ELSE ReplaceHttps(url, <<"https://", "oauth2:", token[1], "@">>)
             ELSE url

\* inject_token_into_url that falls back on the token of the other provider
inject_any_token_into_url(git_ops, url, provider, is_private) ==
    IF ~is_private \/ ~StartsWithHttps(url) THEN url
    ELSE LET own == IF provider = "GitHub" THEN git_ops.github_token
                    ELSE git_ops.gitlab_token
             other == IF provider = "GitHub" THEN git_ops.gitlab_token
                      ELSE git_ops.github_token
             token == IF own # None THEN own ELSE other
         IN  IF token # None
             THEN IF provider = "GitHub"
                  THEN ReplaceHttps(url, <<"https://", token[1], "@">>)
                  ELSE ReplaceHttps(url, <<"https://", "oauth2:", token[1], "@">>)
             ELSE url

\* GitOperations::inject_token_into_url
inject_token_into_url(git_ops, url, provider, is_private) ==
    IF ~is_private \/ ~StartsWithHttps(url) THEN url
    ELSE LET token == IF provider = "GitHub" THEN git_ops.github_token
                      ELSE git_ops.gitlab_token
         IN  IF token # None
             THEN IF provider = "GitHub"
                  THEN ReplaceHttps(url, <<"https://", token[1], "@">>)
                  ELSE ReplaceHttps(url, <<"https://", "oauth2:", token[1], "@">>)
             ELSE url

\* CloneUrl with the transport flag honoured for public records only: a
\* private record always goes through the HTTPS branch
CloneUrlPrivateOverHttps(git_ops, repo, use_ssh) ==
    IF use_ssh /\ ~repo.is_private THEN Some(repo.clone_url_ssh)
    ELSE LET provider == ProviderFromStr(repo.provider)
         IN  IF provider = None THEN None
             ELSE Some(inject_token_into_url(git_ops, repo.clone_url_https,
                                             provider[1], repo.is_private))

\* GitOperations::clone_repository, lines 67-74: the clone URL.
\* None when repo.provider does not parse (the ? returns the error).
CloneUrl(git_ops, repo, use_ssh) ==
    IF use_ssh THEN Some(repo.clone_url_ssh)
    ELSE LET provider == ProviderFromStr(repo.provider)
         IN  IF provider = None THEN None
             ELSE Some(inject_token_into_url(git_ops, repo.clone_url_https,
                                             provider[1], repo.is_private))

\* GitOperations::get_repo_path: base_path.join(owner).join(name)
get_repo_path(repo) == <<repo.owner, repo.name>>

\* clone_repository that clones over a destination that is not a working copy
clone_repository_overwriting(git_ops, repo, use_ssh, fsys, gitOk) ==
    LET clone_url == CloneUrl(git_ops, repo, use_ssh)
        repo_path == get_repo_path(repo)
    IN  IF clone_url = None
        THEN [ok |-> FALSE, path |-> repo_path, url |-> None, fs |-> fsys,
              err |-> "Invalid provider"]
        ELSE IF fsys[repo_path] = "worktree"
        THEN [ok |-> TRUE, path |-> repo_path, url |-> None, fs |-> fsys, err |-> ""]
        ELSE IF gitOk
        THEN [ok |-> TRUE, path |-> repo_path, url |-> clone_url,
              fs |-> [fsys EXCEPT ![repo_path] = "worktree"], err |-> ""]
        ELSE [ok |-> FALSE, path |-> repo_path, url |-> clone_url, fs |-> fsys,
              err |-> "Git clone failed"]

\* GitOperations::clone_repository.  fsys is the filesystem before the call,
\* gitOk the exit status of the external `git clone`, were it run.
\* Result: ok, the returned path, the URL handed to git (None when git was
\* not run), the filesystem after the call and, for an Err, its message.
clone_repository(git_ops, repo, use_ssh, fsys, gitOk) ==
    LET clone_url == CloneUrl(git_ops, repo, use_ssh)
        repo_path == get_repo_path(repo)
    IN  IF clone_url = None
        THEN [ok |-> FALSE, path |-> repo_path, url |-> None, fs |-> fsys,
              err |-> "Invalid provider"]
        ELSE IF fsys[repo_path] # "absent"
        THEN IF fsys[repo_path] = "worktree"
             THEN [ok |-> TRUE, path |-> repo_path, url |-> None, fs |-> fsys, err |-> ""]
             ELSE [ok |-> FALSE, path |-> repo_path, url |-> None, fs |-> fsys,
                   err |-> "Directory exists but is not a git repository"]
        ELSE IF gitOk
        THEN [ok |-> TRUE, path |-> repo_path, url |-> clone_url,
              fs |-> [fsys EXCEPT ![repo_path] = "worktree"], err |-> ""]
        ELSE [ok |-> FALSE, path |-> repo_path, url |-> clone_url, fs |-> fsys,
              err |-> "Git clone failed"]

\* pull_repository without the test of path.exists()
pull_repository_unchecked(local_path, fsys, gitOk) ==
    IF gitOk
    THEN [ok |-> TRUE, err |-> "", ran |-> TRUE]
    ELSE [ok |-> FALSE, err |-> "git pull failed", ran |-> TRUE]

\* GitOperations::pull_repository.  err distinguishes the two failures.
pull_repository(local_path, fsys, gitOk) ==
    IF local_path \notin DOMAIN fsys \/ fsys[local_path] = "absent"
    THEN [ok |-> FALSE, err |-> "path does not exist", ran |-> FALSE]
    ELSE IF gitOk
    THEN [ok |-> TRUE, err |-> "", ran |-> TRUE]
    ELSE [ok |-> FALSE, err |-> "git pull failed", ran |-> TRUE]

-----------------------------------------------------------------------------
(* database/mod.rs *)

\* order of full_name under ORDER BY full_name ASC
FullNameRank(full_name) ==
    CASE full_name = "u/a" -> 1
      [] full_name = "u/b" -> 2
      [] OTHER -> 3

\* the sequences that list the rows of S once each, ORDER BY full_name ASC
OrderedByFullName(S) ==
    {s \in [1..Cardinality(S) -> S] :
        /\ \A i, j \in 1..Cardinality(S) : i # j => s[i] # s[j]
        /\ \A i, j \in 1..Cardinality(S) :
              i < j => FullNameRank(s[i].full_name) <= FullNameRank(s[j].full_name)}

\* get_repository_by_full_name with the query on the name column
get_repository_by_name_column(st, full_name) ==
    IF \E r \in st : r.name = full_name
    THEN {Some(r) : r \in {x \in st : x.name = full_name}}
    ELSE {None}

\* RepositoryDatabase::get_repository_by_full_name: the Options fetch_optional
\* may return (the schema does not make full_name unique)
get_repository_by_full_name(st, full_name) ==
    IF \E r \in st : r.full_name = full_name
    THEN {Some(r) : r \in {x \in st : x.full_name = full_name}}
    ELSE {None}

\* RepositoryDatabase::get_repositories_by_status: the Vecs the query may return
get_repositories_by_status(st, status) ==
    OrderedByFullName({r \in st : r.status = CloneStatusToString(status)})

\* RepositoryDatabase::get_all_repositories
get_all_repositories(st) == OrderedByFullName(st)

\* RepositoryDatabase::get_repositories_by_provider: WHERE provider = ? on
\* the text as given
get_repositories_by_provider(st, provider) ==
    OrderedByFullName({r \in st : r.provider = provider})

\* RepositoryDatabase::create_repository (INSERT; id is the primary key)
create_repository(st, repo) == st \cup {repo}

\* update_repository as an upsert on full_name: the row of that full_name
\* is replaced by the record, id and created_at included
update_repository_by_full_name(st, repo) ==
    {IF x.full_name = repo.full_name THEN repo ELSE x : x \in st}

\* RepositoryDatabase::update_repository: UPDATE ... WHERE id = ?  sets every
\* column but id and created_at; a row count of zero is not an error
update_repository(st, repo) ==
    {IF x.id = repo.id THEN [repo EXCEPT !.created_at = x.created_at] ELSE x : x \in st}

\* RepositoryDatabase::delete_repository
delete_repository(st, id) == {x \in st : x.id # id}

-----------------------------------------------------------------------------
(* The remote side: what the two APIs answer.  A listing is a sequence of  *)
(* pages; every page after the last one is empty.                          *)

GitHubRepo(name, full_name, login, private) ==
    [name |-> name, full_name |-> full_name, owner |-> login,
     clone_url |-> <<"https://", "github.com/", full_name, ".git">>,
     ssh_url |-> <<"git@github.com:", full_name, ".git">>,
     description |-> None, private |-> private]

GitLabProject(name, path_with_namespace, namespace_path, visibility) ==
    [name |-> name, path_with_namespace |-> path_with_namespace,
     namespace |-> namespace_path,
     http_url_to_repo |-> <<"https://", "gitlab.com/", path_with_namespace, ".git">>,
     ssh_url_to_repo |-> <<"git@gitlab.com:", path_with_namespace, ".git">>,
     description |-> None, visibility |-> visibility]

\* GET /users/{name}/repos and /orgs/{name}/repos: Some(pages), None for a
\* non-success status
GitHubListing(kind, name) ==
    CASE kind = "users" /\ name = "u" ->
            Some(<< <<GitHubRepo("a", "u/a", "u", TRUE)>>,
                    <<GitHubRepo("b", "u/b", "u", FALSE)>> >>)
      [] kind = "orgs" /\ name = "g" -> Some(<< >>)
      [] OTHER -> None

\* GET /api/v4/users/{name}/projects and /groups/{name}/projects; the
\* project u/b is shared with the groups g and h, so both groups list it;
\* the subgroup x/u (x%2Fu in the request) holds a project a: its
\* namespace.path is u, as that of the project a of user u
GitLabListing(kind, name) ==
    CASE kind = "users" /\ name = "u" ->
            Some(<< <<GitLabProject("a", "u/a", "u", "private")>> >>)
      [] kind = "groups" /\ name = "g" ->
            Some(<< <<GitLabProject("b", "u/b", "u", "public")>> >>)
      [] kind = "groups" /\ name = "h" ->
            Some(<< <<GitLabProject("b", "u/b", "u", "public")>> >>)
      [] kind = "groups" /\ name = "x%2Fu" ->
            Some(<< <<GitLabProject("a", "x/u/a", "u", "public")>> >>)
      [] OTHER -> None

FullNames == {"u/a", "u/b"}

Paths == {<<"u", "a">>, <<"u", "b">>}

-----------------------------------------------------------------------------
(* providers/github.rs, providers/gitlab.rs *)

\* github.rs lines 86-97: one GitHubRepo to a Repository
MapGitHubRepo(repo, id, t) ==
    RepositoryNew(id, t, repo.name, repo.full_name, repo.owner, "GitHub",
                  repo.clone_url, repo.ssh_url, repo.description, repo.private)

\* the mapping that takes only the visibility private as private
MapGitLabProjectPrivateOnly(project, id, t) ==
    LET is_private == project.visibility = "private"
    IN  RepositoryNew(id, t, project.name, project.path_with_namespace,
                      project.namespace, "GitLab", project.http_url_to_repo,
                      project.ssh_url_to_repo, project.description, is_private)

\* gitlab.rs lines 90-102: one GitLabProject to a Repository
MapGitLabProject(project, id, t) ==
    LET is_private == project.visibility # "public"
    IN  RepositoryNew(id, t, project.name, project.path_with_namespace,
                      project.namespace, "GitLab", project.http_url_to_repo,
                      project.ssh_url_to_repo, project.description, is_private)

\* the records of one page, pushed in order; ids follow firstId
MapPage(provider, body, firstId, t) ==
    [k \in 1..Len(body) |->
        IF provider = "GitHub" THEN MapGitHubRepo(body[k], firstId + k, t)
        ELSE MapGitLabProject(body[k], firstId + k, t)]

\* The loop of fetch_repos / fetch_projects.  listing is what the remote
\* answers, page the page to request, all_repos the records so far, n the
\* number of requests the command made before, failAt the request that fails
\* (transport error, non-success status or unparsable body; 0: none).
RECURSIVE FetchLoop(_, _, _, _, _, _, _, _)
FetchLoop(provider, listing, page, all_repos, n, failAt, firstId, t) ==
    IF n + 1 = failAt \/ listing = None
    THEN [ok |-> FALSE, repos |-> << >>, reqs |-> n + 1]
    ELSE LET body == IF page <= Len(listing[1]) THEN listing[1][page] ELSE << >>
         IN  IF body = << >>
             THEN [ok |-> TRUE, repos |-> all_repos, reqs |-> n + 1]
             ELSE FetchLoop(provider, listing, page + 1,
                            all_repos \o MapPage(provider, body, firstId + Len(all_repos), t),
                            n + 1, failAt, firstId, t)

\* GitHubClient::fetch_repos
fetch_repos(listing, n, failAt, firstId, t) ==
    FetchLoop("GitHub", listing, 1, << >>, n, failAt, firstId, t)

\* GitLabClient::fetch_projects
fetch_projects(listing, n, failAt, firstId, t) ==
    FetchLoop("GitLab", listing, 1, << >>, n, failAt, firstId, t)

\* RepositoryProvider::discover_user_repos
discover_user_repos(provider, username, n, failAt, firstId, t) ==
    IF provider = "GitHub"
    THEN fetch_repos(GitHubListing("users", username), n, failAt, firstId, t)
    ELSE fetch_projects(GitLabListing("users", username), n, failAt, firstId, t)

\* RepositoryProvider::discover_org_repos
discover_org_repos(provider, org, n, failAt, firstId, t) ==
    IF provider = "GitHub"
    THEN fetch_repos(GitHubListing("orgs", org), n, failAt, firstId, t)
    ELSE fetch_projects(GitLabListing("groups", org), n, failAt, firstId, t)

\* get_authenticated_user: one request with the token; the login it names
get_authenticated_user(provider, n, failAt) ==
    IF n + 1 = failAt THEN [ok |-> FALSE, login |-> "", reqs |-> n + 1]
    ELSE [ok |-> TRUE, login |-> "u", reqs |-> n + 1]

\* get_user_organizations / get_user_groups: one request with the token; the
\* organizations or groups the caller can access
get_user_organizations(provider, n, failAt) ==
    IF n + 1 = failAt THEN [ok |-> FALSE, orgs |-> << >>, reqs |-> n + 1]
    ELSE [ok |-> TRUE, orgs |-> IF provider = "GitHub" THEN <<"g">> ELSE <<"g", "h">>,
          reqs |-> n + 1]

\* the loop over the organizations that passes over one whose discovery
\* failed
RECURSIVE DiscoverOrgsSkipsFailed(_, _, _, _, _, _, _)
DiscoverOrgsSkipsFailed(provider, orgs, all_repos, n, failAt, firstId, t) ==
    IF orgs = << >> THEN [ok |-> TRUE, repos |-> all_repos, reqs |-> n]
    ELSE LET d == discover_org_repos(provider, Head(orgs), n, failAt,
                                     firstId + Len(all_repos), t)
         IN  DiscoverOrgsSkipsFailed(provider, Tail(orgs), all_repos \o d.repos,
                                     d.reqs, failAt, firstId, t)

\* main.rs lines 339-344 / 351-356: the loop over the organizations; the ?
\* on a failed discovery leaves the loop and the command
RECURSIVE DiscoverOrgs(_, _, _, _, _, _, _)
DiscoverOrgs(provider, orgs, all_repos, n, failAt, firstId, t) ==
    IF orgs = << >> THEN [ok |-> TRUE, repos |-> all_repos, reqs |-> n]
    ELSE LET d == discover_org_repos(provider, Head(orgs), n, failAt,
                                     firstId + Len(all_repos), t)
         IN  IF ~d.ok THEN [ok |-> FALSE, repos |-> << >>, reqs |-> d.reqs]
             ELSE DiscoverOrgs(provider, Tail(orgs), all_repos \o d.repos,
                               d.reqs, failAt, firstId, t)

-----------------------------------------------------------------------------
(* main.rs: the command line *)

SyncKinds == {"clone-user", "clone-org", "clone-mine", "clone-all-orgs"}

\* --provider as typed
ProviderArgs == {"github", "GitLab", "svn"}

\* Config as the command line and the environment set it: github_token,
\* gitlab_token, use_ssh
Configs ==
    {[github_token |-> None, gitlab_token |-> None, use_ssh |-> FALSE],
     [github_token |-> Some("ghp"), gitlab_token |-> Some("glpat"), use_ssh |-> FALSE],
     [github_token |-> Some("ghp"), gitlab_token |-> None, use_ssh |-> TRUE]}

\* the positional argument of each command
ArgsOf(kind) ==
    CASE kind = "clone-user" -> {"u"}
      [] kind = "clone-org" -> {"g"}
      [] kind = "clone" -> FullNames \cup {"u/zz"}
      [] OTHER -> {""}

Command(kind, provider, arg, config) ==
    [kind |-> kind, provider |-> provider, arg |-> arg,
     github_token |-> config.github_token, gitlab_token |-> config.gitlab_token,
     use_ssh |-> config.use_ssh]

DefaultConfig == [github_token |-> None, gitlab_token |-> None, use_ssh |-> FALSE]

SyncCommands ==
    {c \in {Command(k, pr, a, cf) :
                k \in SyncKinds, pr \in ProviderArgs, a \in {"u", "g", ""}, cf \in Configs} :
        c.arg \in ArgsOf(c.kind)}

NoCommand == Command("", "", "", DefaultConfig)

IsSync(c) == c.kind \in SyncKinds

\* the token check that accepts the token of either provider
TokenPresentForAny(c, provider) ==
    c.github_token # None \/ c.gitlab_token # None

\* main.rs lines 238-254 / 312-328: "token is required for this command"
TokenPresent(c, provider) ==
    IF provider = "GitHub" THEN c.github_token # None ELSE c.gitlab_token # None

\* The discovery part of a sync command (main.rs lines 131-143, 182-197,
\* 236-271, 310-358): provider.parse()?, the token check, the requests.
Discovery(c, failAt, firstId, t) ==
    LET parsed == ProviderFromStr(c.provider)
        failed(why, n) == [ok |-> FALSE, repos |-> << >>, reqs |-> n, err |-> why]
        from(d) == [ok |-> d.ok, repos |-> d.repos, reqs |-> d.reqs,
                    err |-> IF d.ok THEN "" ELSE "discovery"]
    IN  IF parsed = None THEN failed("provider", 0)
        ELSE LET provider == parsed[1]
             IN  CASE c.kind = "clone-user" ->
                        from(discover_user_repos(provider, c.arg, 0, failAt, firstId, t))
                   [] c.kind = "clone-org" ->
                        from(discover_org_repos(provider, c.arg, 0, failAt, firstId, t))
                   [] c.kind = "clone-mine" ->
                        IF ~TokenPresent(c, provider) THEN failed("token", 0)
                        ELSE LET u == get_authenticated_user(provider, 0, failAt)
                             IN  IF ~u.ok THEN failed("discovery", u.reqs)
                                 ELSE from(discover_user_repos(provider, u.login, u.reqs,
                                                               failAt, firstId, t))
                   [] c.kind = "clone-all-orgs" ->
                        IF ~TokenPresent(c, provider) THEN failed("token", 0)
                        ELSE LET o == get_user_organizations(provider, 0, failAt)
                             IN  IF ~o.ok THEN failed("discovery", o.reqs)
                                 ELSE from(DiscoverOrgs(provider, o.orgs, << >>, o.reqs,
                                                        failAt, firstId, t))

NoStart == [rows |-> 0, known |-> FALSE, reqs |-> 0, failAt |-> 0, err |-> ""]

\* whether every record of the list has its full_name in the store
AllStored(st, list) ==
    \A i \in 1..Len(list) : \E r \in st : r.full_name = list[i].full_name

-----------------------------------------------------------------------------
(* main.rs: the commands, one action per store operation or external call *)

\* no command is running
InitIdle ==
    /\ pc = [p \in Procs |-> "idle"]
    /\ cmd = [p \in Procs |-> NoCommand]
    /\ repos = [p \in Procs |-> << >>]
    /\ idx = [p \in Procs |-> 0]
    /\ res = [p \in Procs |-> None]
    /\ outcome = [p \in Procs |-> << >>]
    /\ creates = [p \in Procs |-> 0]
    /\ start = [p \in Procs |-> NoStart]

InitPipeline ==
    /\ store = {}
    /\ fs = [path \in Paths |-> "absent"]
    /\ nextId = 0
    /\ now = 0
    /\ InitIdle

Init ==
    /\ InitPipeline
    /\ ucall = None
    /\ uret = None
    /\ fetch = None
    /\ app = None

\* the repository the loop of process p is at
Current(p) == repos[p][idx[p]]

\* clone-user, clone-org, clone-mine, clone-all-orgs up to "Save to database"
\* (main.rs lines 130-146, 181-200, 235-274, 309-361)
StartSyncOf(p, commands) ==
    /\ pc[p] = "idle"
    /\ \E c \in commands :
         /\ \E failAt \in 0..Discovery(c, 0, nextId, now).reqs :
              LET d == Discovery(c, failAt, nextId, now)
              IN  /\ nextId + Len(d.repos) <= MaxIds
                  /\ cmd' = [cmd EXCEPT ![p] = c]
                  /\ repos' = [repos EXCEPT ![p] = d.repos]
                  /\ nextId' = nextId + Len(d.repos)
                  /\ idx' = [idx EXCEPT ![p] = 1]
                  /\ pc' = [pc EXCEPT ![p] = IF ~d.ok THEN "failed"
                                             ELSE IF d.repos = << >> THEN "done"
                                             ELSE "lookup"]
                  /\ start' = [start EXCEPT ![p] =
                                 [rows |-> IF d.ok THEN Cardinality(store) ELSE 0,
                                  known |-> d.ok /\ AllStored(store, d.repos),
                                  reqs |-> d.reqs,
                                  failAt |-> failAt,
                                  err |-> d.err]]
    /\ outcome' = [outcome EXCEPT ![p] = << >>]
    /\ creates' = [creates EXCEPT ![p] = 0]
    /\ UNCHANGED <<store, fs, now, res, ucall, uret, fetch, app>>

StartSync(p) == StartSyncOf(p, SyncCommands)

\* AfterSave that clones each record as soon as it is saved
AfterSaveClonesAtOnce(p) ==
    /\ pc' = [pc EXCEPT ![p] = "clone"]
    /\ idx' = idx

\* where the save loop goes after the element at idx: the next element, or
\* the first element of the clone loop
AfterSave(p) ==
    IF idx[p] < Len(repos[p])
    THEN /\ pc' = [pc EXCEPT ![p] = "lookup"]
         /\ idx' = [idx EXCEPT ![p] = idx[p] + 1]
    ELSE /\ pc' = [pc EXCEPT ![p] = "clone"]
         /\ idx' = [idx EXCEPT ![p] = 1]

\* Lookup that refreshes a stored row from the discovered record
LookupOverwrites(p) ==
    /\ pc[p] = "lookup"
    /\ \E found \in get_repository_by_full_name(store, Current(p).full_name) :
         IF found = None
         THEN pc' = [pc EXCEPT ![p] = "create"] /\ idx' = idx /\ store' = store
         ELSE /\ AfterSave(p)
              /\ store' = (store \ {found[1]}) \cup {Current(p)}
    /\ UNCHANGED <<fs, nextId, now, cmd, repos, res, outcome, creates,
                   start, ucall, uret, fetch, app>>

\* Lookup without the is_none() test: every discovered record is created
LookupAlwaysCreates(p) ==
    /\ pc[p] = "lookup"
    /\ pc' = [pc EXCEPT ![p] = "create"]
    /\ UNCHANGED <<store, fs, nextId, now, cmd, repos, idx, res, outcome, creates,
                   start, ucall, uret, fetch, app>>

\* main.rs lines 148-153: db.get_repository_by_full_name(..).await?.is_none()
Lookup(p) ==
    /\ pc[p] = "lookup"
    /\ \E found \in get_repository_by_full_name(store, Current(p).full_name) :
         IF found = None
         THEN pc' = [pc EXCEPT ![p] = "create"] /\ idx' = idx
         ELSE AfterSave(p)
    /\ UNCHANGED <<store, fs, nextId, now, cmd, repos, res, outcome, creates,
                   start, ucall, uret, fetch, app>>

\* main.rs line 154: db.create_repository(repo).await?
Create(p) ==
    /\ pc[p] = "create"
    /\ store' = create_repository(store, Current(p))
    /\ creates' = [creates EXCEPT ![p] = creates[p] + 1]
    /\ AfterSave(p)
    /\ UNCHANGED <<fs, nextId, now, cmd, repos, res, outcome, start, ucall, uret, fetch, app>>

\* main.rs lines 159-162 (and 461-463): GitOperations::new, clone_repository
Clone(p) ==
    /\ pc[p] = "clone"
    /\ \E gitOk \in BOOLEAN :
         LET git_ops == GitOperationsNew("base")
             r == clone_repository(git_ops, Current(p), cmd[p].use_ssh, fs, gitOk)
         IN  /\ fs' = r.fs
             /\ res' = [res EXCEPT ![p] = Some([ok |-> r.ok, path |-> r.path, url |-> r.url,
                                                err |-> r.err])]
    /\ pc' = [pc EXCEPT ![p] = "update"]
    /\ UNCHANGED <<store, nextId, now, cmd, repos, idx, outcome, creates,
                   start, ucall, uret, fetch, app>>

\* UpdatedRepo that marks a failed clone as still in progress
UpdatedRepoInProgress(repo, r, t) ==
    IF r.ok
    THEN update_status(set_local_path(repo, r.path, t), "Cloned", t)
    ELSE update_status(repo, "Cloning", t)

\* UpdatedRepo that forgets the path of a record whose clone failed
UpdatedRepoClearsPath(repo, r, t) ==
    IF r.ok
    THEN update_status(set_local_path(repo, r.path, t), "Cloned", t)
    ELSE [update_status(repo, "Error", t) EXCEPT !.local_path = None]

\* UpdatedRepo that marks a cloned record without its path
UpdatedRepoWithoutPath(repo, r, t) ==
    IF r.ok
    THEN update_status(repo, "Cloned", t)
    ELSE update_status(repo, "Error", t)

\* main.rs lines 163-176 (and 464-476): the record written after a clone
UpdatedRepo(repo, r, t) ==
    IF r.ok
    THEN update_status(set_local_path(repo, r.path, t), "Cloned", t)
    ELSE update_status(repo, "Error", t)

\* where a per-repository loop goes after the element at idx
AfterEach(p, at) ==
    IF idx[p] < Len(repos[p])
    THEN /\ pc' = [pc EXCEPT ![p] = at]
         /\ idx' = [idx EXCEPT ![p] = idx[p] + 1]
    ELSE /\ pc' = [pc EXCEPT ![p] = "done"]
         /\ idx' = idx

\* Update that drops the row of a record whose clone failed
UpdateDeletesFailed(p) ==
    /\ pc[p] = "update"
    /\ store' = IF res[p][1].ok
                THEN update_repository(store, UpdatedRepo(Current(p), res[p][1], now))
                ELSE delete_repository(store, Current(p).id)
    /\ outcome' = [outcome EXCEPT ![p] = Append(outcome[p], res[p][1])]
    /\ res' = [res EXCEPT ![p] = None]
    /\ AfterEach(p, "clone")
    /\ UNCHANGED <<fs, nextId, now, cmd, repos, creates, start, ucall, uret, fetch, app>>

\* Update that leaves the loop after a failed clone
UpdateStopsOnFailure(p) ==
    /\ pc[p] = "update"
    /\ store' = update_repository(store, UpdatedRepo(Current(p), res[p][1], now))
    /\ outcome' = [outcome EXCEPT ![p] = Append(outcome[p], res[p][1])]
    /\ res' = [res EXCEPT ![p] = None]
    /\ IF res[p][1].ok
       THEN AfterEach(p, "clone")
       ELSE pc' = [pc EXCEPT ![p] = "done"] /\ idx' = idx
    /\ UNCHANGED <<fs, nextId, now, cmd, repos, creates, start, ucall, uret, fetch, app>>

\* main.rs lines 163-176 (and 464-476): db.update_repository(&updated_repo).await?
Update(p) ==
    /\ pc[p] = "update"
    /\ store' = update_repository(store, UpdatedRepo(Current(p), res[p][1], now))
    /\ outcome' = [outcome EXCEPT ![p] = Append(outcome[p], res[p][1])]
    /\ res' = [res EXCEPT ![p] = None]
    /\ AfterEach(p, "clone")
    /\ UNCHANGED <<fs, nextId, now, cmd, repos, creates, start, ucall, uret, fetch, app>>


\* the clone <repo> command lines
CloneCommands == {Command("clone", "", a, cf) : a \in ArgsOf("clone"), cf \in Configs}

\* clone <repo> (main.rs line 457)
StartCloneOf(p, commands) ==
    /\ pc[p] = "idle"
    /\ \E c \in commands : cmd' = [cmd EXCEPT ![p] = c]
    /\ pc' = [pc EXCEPT ![p] = "byname"]
    /\ repos' = [repos EXCEPT ![p] = << >>]
    /\ idx' = [idx EXCEPT ![p] = 0]
    /\ outcome' = [outcome EXCEPT ![p] = << >>]
    /\ creates' = [creates EXCEPT ![p] = 0]
    /\ UNCHANGED <<store, fs, nextId, now, res, start, ucall, uret, fetch, app>>

StartClone(p) == StartCloneOf(p, CloneCommands)

\* main.rs lines 458-460, 478-481: the lookup of clone <repo>; a name that is
\* not stored is reported on stderr and the command ends with Ok(())
LookupByName(p) ==
    /\ pc[p] = "byname"
    /\ \E found \in get_repository_by_full_name(store, cmd[p].arg) :
         IF found = None
         THEN /\ pc' = [pc EXCEPT ![p] = "done"]
              /\ UNCHANGED <<repos, idx>>
         ELSE /\ pc' = [pc EXCEPT ![p] = "clone"]
              /\ repos' = [repos EXCEPT ![p] = <<found[1]>>]
              /\ idx' = [idx EXCEPT ![p] = 1]
    /\ UNCHANGED <<store, fs, nextId, now, cmd, res, outcome, creates, start, ucall, uret, fetch, app>>

\* pull-all (main.rs line 427)
StartPullAll(p) ==
    /\ pc[p] = "idle"
    /\ cmd' = [cmd EXCEPT ![p] = Command("pull-all", "", "", DefaultConfig)]
    /\ pc' = [pc EXCEPT ![p] = "load"]
    /\ repos' = [repos EXCEPT ![p] = << >>]
    /\ idx' = [idx EXCEPT ![p] = 0]
    /\ outcome' = [outcome EXCEPT ![p] = << >>]
    /\ creates' = [creates EXCEPT ![p] = 0]
    /\ UNCHANGED <<store, fs, nextId, now, res, start, ucall, uret, fetch, app>>

\* main.rs lines 428-433: the Cloned records, or the early return
Load(p) ==
    /\ pc[p] = "load"
    /\ \E rows \in get_repositories_by_status(store, "Cloned") :
         /\ repos' = [repos EXCEPT ![p] = rows]
         /\ pc' = [pc EXCEPT ![p] = IF rows = << >> THEN "done" ELSE "pull"]
         /\ idx' = [idx EXCEPT ![p] = IF rows = << >> THEN 0 ELSE 1]
    /\ UNCHANGED <<store, fs, nextId, now, cmd, res, outcome, creates, start, ucall, uret, fetch, app>>

\* Pull that stores the Error status of a record whose pull failed
PullFailureStoresError(p, readings) ==
    /\ pc[p] = "pull"
    /\ IF Current(p).local_path = None
       THEN /\ AfterEach(p, "pull")
            /\ UNCHANGED <<store, now, res, outcome>>
       ELSE \E gitOk \in BOOLEAN :
              LET r == pull_repository(Current(p).local_path[1], fs, gitOk)
              IN  IF r.ok
                  THEN /\ now' \in readings
                       /\ res' = [res EXCEPT ![p] =
                                  Some([ok |-> r.ok, err |-> r.err, ran |-> r.ran,
                                        at |-> now, at2 |-> now'])]
                       /\ pc' = [pc EXCEPT ![p] = "pulled"]
                       /\ UNCHANGED <<store, idx, outcome>>
                  ELSE /\ outcome' = [outcome EXCEPT ![p] = Append(outcome[p], r)]
                       /\ store' = update_repository(store,
                                                     update_status(Current(p), "Error", now))
                       /\ AfterEach(p, "pull")
                       /\ UNCHANGED <<now, res>>
    /\ UNCHANGED <<fs, nextId, cmd, repos, creates, start, ucall, uret, fetch, app>>

\* main.rs lines 439-443, 448-450: a record without local_path is passed
\* over; a failed pull is printed and the loop goes on; after a pull that
\* succeeded update_pulled_at reads the clock twice, before the store is
\* awaited; readings is what the second reading may return
PullAt(p, readings) ==
    /\ pc[p] = "pull"
    /\ IF Current(p).local_path = None
       THEN /\ AfterEach(p, "pull")
            /\ UNCHANGED <<now, res, outcome>>
       ELSE \E gitOk \in BOOLEAN :
              LET r == pull_repository(Current(p).local_path[1], fs, gitOk)
              IN  IF r.ok
                  THEN /\ now' \in readings
                       /\ res' = [res EXCEPT ![p] =
                                  Some([ok |-> r.ok, err |-> r.err, ran |-> r.ran,
                                        at |-> now, at2 |-> now'])]
                       /\ pc' = [pc EXCEPT ![p] = "pulled"]
                       /\ UNCHANGED <<idx, outcome>>
                  ELSE /\ outcome' = [outcome EXCEPT ![p] = Append(outcome[p], r)]
                       /\ AfterEach(p, "pull")
                       /\ UNCHANGED <<now, res>>
    /\ UNCHANGED <<store, fs, nextId, cmd, repos, creates, start, ucall, uret, fetch, app>>

\* the pull step while the clock is at rest
Pull(p) == PullAt(p, {now})

\* main.rs lines 442-446: update_pulled_at, db.update_repository
PullUpdate(p) ==
    /\ pc[p] = "pulled"
    /\ store' = update_repository(store, update_pulled_at(Current(p), res[p][1].at, res[p][1].at2))
    /\ outcome' = [outcome EXCEPT ![p] = Append(outcome[p], res[p][1])]
    /\ res' = [res EXCEPT ![p] = None]
    /\ AfterEach(p, "pull")
    /\ UNCHANGED <<fs, nextId, now, cmd, repos, creates, start, ucall, uret, fetch, app>>

\* the store operations return Result: the ? after each .await ends the
\* command with the error (sqlx error: I/O, locked database, ...)
AtStoreOperation(p) == pc[p] \in {"lookup", "create", "update", "byname", "load", "pulled"}

\* a store failure after which the rows of the records of this run are
\* taken back
StoreErrorRollsBack(p) ==
    /\ AtStoreOperation(p)
    /\ pc' = [pc EXCEPT ![p] = "failed"]
    /\ store' = {r \in store : \A i \in 1..Len(repos[p]) : repos[p][i].id # r.id}
    /\ repos' = [repos EXCEPT ![p] = << >>]
    /\ idx' = [idx EXCEPT ![p] = 0]
    /\ res' = [res EXCEPT ![p] = None]
    /\ UNCHANGED <<fs, nextId, now, cmd, outcome, creates, start, ucall, uret, fetch, app>>

StoreError(p) ==
    /\ AtStoreOperation(p)
    /\ pc' = [pc EXCEPT ![p] = "failed"]
    /\ repos' = [repos EXCEPT ![p] = << >>]
    /\ idx' = [idx EXCEPT ![p] = 0]
    /\ res' = [res EXCEPT ![p] = None]
    /\ UNCHANGED <<store, fs, nextId, now, cmd, outcome, creates, start, ucall, uret, fetch, app>>

\* main.rs lines 483-486: the process ends, with Ok(()) or with the error
Exit(p) ==
    /\ pc[p] \in {"done", "failed"}
    /\ start' = [start EXCEPT ![p] = NoStart]
    /\ pc' = [pc EXCEPT ![p] = "idle"]
    /\ cmd' = [cmd EXCEPT ![p] = NoCommand]
    /\ repos' = [repos EXCEPT ![p] = << >>]
    /\ idx' = [idx EXCEPT ![p] = 0]
    /\ res' = [res EXCEPT ![p] = None]
    /\ outcome' = [outcome EXCEPT ![p] = << >>]
    /\ creates' = [creates EXCEPT ![p] = 0]
    /\ UNCHANGED <<store, fs, nextId, now, ucall, uret, fetch, app>>

\* tui/mod.rs lines 97-106: key 'd' on a listed record
TuiDelete ==
    /\ \E r \in store : store' = delete_repository(store, r.id)
    /\ UNCHANGED <<fs, nextId, now, pc, cmd, repos, idx, res, outcome, creates,
                   start, ucall, uret, fetch, app>>

Step(p) ==
    \/ StartSync(p)
    \/ Lookup(p)
    \/ Create(p)
    \/ Clone(p)
    \/ Update(p)
    \/ StartClone(p)
    \/ LookupByName(p)
    \/ StartPullAll(p)
    \/ Load(p)
    \/ Pull(p)
    \/ PullUpdate(p)
    \/ StoreError(p)
    \/ Exit(p)

\* One command at a time, as a user at one terminal runs them; the key 'd'
\* of the interactive list between two commands.
Next ==
    \/ Step(1)
    \/ (pc[1] = "idle" /\ TuiDelete)

Spec == Init /\ [][Next]_vars

\* the sync commands of the two-process specification
ConcCommands ==
    {Command("clone-user", "github", "u", DefaultConfig),
     Command("clone-all-orgs", "GitLab", "",
             [github_token |-> Some("ghp"), gitlab_token |-> Some("glpat"), use_ssh |-> FALSE])}

ConcStep(p) ==
    \/ StartSyncOf(p, ConcCommands)
    \/ Lookup(p)
    \/ Create(p)
    \/ Clone(p)
    \/ Update(p)
    \/ StoreError(p)
    \/ Exit(p)

\* Two command lines at once on the same database file.
ConcNext == \E p \in Procs : ConcStep(p)

ConcSpec == Init /\ [][ConcNext]_vars

-----------------------------------------------------------------------------
(* One call of GitOperations::clone_repository on an empty base directory, *)
(* for every GitOperations value, record and transport flag.               *)

\* the shapes of the HTTPS clone URL field
HttpsUrls(host) ==
    {<<"https://", host, "u/a", ".git">>,
     <<"http://", host, "u/a", ".git">>,
     <<"https://", "proxy.example/", "https://", host, "u/a", ".git">>}

UrlRepos ==
    {RepositoryNew(1, 0, "a", "u/a", "u", provider, https, <<"git@", "host:", "u/a", ".git">>,
                   None, is_private) :
        provider \in Providers, is_private \in BOOLEAN,
        https \in HttpsUrls("github.com/") \cup HttpsUrls("gitlab.com/")}

UrlCalls ==
    {[git_ops |-> GitOperationsWithTokens("base", gh, gl), repo |-> repo, use_ssh |-> ssh] :
        gh \in {None, Some("ghp")}, gl \in {None, Some("glpat")},
        repo \in UrlRepos, ssh \in BOOLEAN}

UrlInit ==
    /\ InitPipeline
    /\ ucall \in {Some(c) : c \in UrlCalls}
    /\ uret = None
    /\ fetch = None
    /\ app = None

\* the call: clone_repository(&repo, use_ssh) on git_ops
UrlClone ==
    /\ ucall # None
    /\ uret = None
    /\ \E gitOk \in BOOLEAN :
         LET r == clone_repository(ucall[1].git_ops, ucall[1].repo, ucall[1].use_ssh,
                                   fs, gitOk)
         IN  /\ uret' = Some([ok |-> r.ok, path |-> r.path, url |-> r.url, err |-> r.err])
             /\ fs' = r.fs
    /\ UNCHANGED <<store, nextId, now, pc, cmd, repos, idx, res, outcome, creates,
                   start, ucall, fetch, app>>

UrlNext == UrlClone

UrlSpec == UrlInit /\ [][UrlNext]_vars

-----------------------------------------------------------------------------
(* One call of GitOperations::inject_token_into_url, for every             *)
(* GitOperations value, URL shape, provider and privacy flag.              *)

\* the URLs passed as the url argument: HTTPS, HTTP, an HTTPS URL that
\* holds the text https:// a second time, and the SSH form
InjectUrls ==
    HttpsUrls("github.com/") \cup HttpsUrls("gitlab.com/")
        \cup {<<"git@github.com:", "u/a", ".git">>, <<"git@gitlab.com:", "u/a", ".git">>}

InjectCalls ==
    {[git_ops |-> GitOperationsWithTokens("base", gh, gl), url |-> url,
      provider |-> provider, is_private |-> is_private] :
        gh \in {None, Some("ghp")}, gl \in {None, Some("glpat")},
        url \in InjectUrls, provider \in Providers, is_private \in BOOLEAN}

InjectInit ==
    /\ InitPipeline
    /\ ucall \in {Some(c) : c \in InjectCalls}
    /\ uret = None
    /\ fetch = None
    /\ app = None

\* the call: git_ops.inject_token_into_url(url, provider, is_private)
InjectCall ==
    /\ ucall # None
    /\ uret = None
    /\ uret' = Some(inject_token_into_url(ucall[1].git_ops, ucall[1].url,
                                          ucall[1].provider, ucall[1].is_private))
    /\ UNCHANGED <<store, fs, nextId, now, pc, cmd, repos, idx, res, outcome, creates,
                   start, ucall, fetch, app>>

InjectNext == InjectCall

InjectSpec == InjectInit /\ [][InjectNext]_vars

-----------------------------------------------------------------------------
(* One run of the loop of fetch_repos / fetch_projects, one request per    *)
(* step, against every remote of up to MaxPages pages of up to MaxPageLen  *)
(* records; every page after those is empty.                               *)

\* per_page of the request URL
per_page == 100

\* names of the records a remote lists, by position
RemoteNames ==
    <<"a", "b", "c", "d", "e", "f", "g", "h", "i", "j", "k", "l">>

RemoteFullNames ==
    <<"u/a", "u/b", "u/c", "u/d", "u/e", "u/f", "u/g", "u/h", "u/i", "u/j", "u/k", "u/l">>

\* the n-th record of a remote, as the API of the provider lists it
RemoteItem(provider, n) ==
    IF provider = "GitHub"
    THEN GitHubRepo(RemoteNames[n], RemoteFullNames[n], "u", n % 2 = 1)
    ELSE GitLabProject(RemoteNames[n], RemoteFullNames[n], "u",
                       CASE n % 3 = 0 -> "public"
                         [] n % 3 = 1 -> "private"
                         [] OTHER -> "internal")

\* the pages of a remote whose page p holds sizes[p] records
RemotePages(provider, sizes) ==
    [p \in 1..Len(sizes) |->
        [k \in 1..sizes[p] |-> RemoteItem(provider, (p - 1) * MaxPageLen + k)]]

Remotes(provider) ==
    {RemotePages(provider, sizes) :
        sizes \in UNION {[1..n -> 0..MaxPageLen] : n \in 0..MaxPages}}

\* what one request may come to: a body that parses, a send error, a
\* non-success status, a body that does not parse
Responses == {"ok", "transport", "status", "parse"}

\* the body the remote holds for a page
PageBody(remote, page) == IF page <= Len(remote) THEN remote[page] ELSE << >>

FetchInit ==
    /\ InitPipeline
    /\ ucall = None
    /\ uret = None
    /\ fetch \in {Some([provider |-> provider, remote |-> remote, page |-> 1,
                        all_repos |-> << >>, reqs |-> << >>, resps |-> << >>,
                        ret |-> None]) :
                     provider \in Providers, remote \in Remotes("GitHub") \cup Remotes("GitLab")}
    /\ fetch[1].remote \in Remotes(fetch[1].provider)
    /\ app = None

\* FetchPage with all_repos replaced by the records of the page
FetchPageKeepsLastPage ==
    /\ fetch # None
    /\ fetch[1].ret = None
    /\ \E resp \in Responses :
         LET f == fetch[1]
             body == PageBody(f.remote, f.page)
             g == [f EXCEPT !.reqs = Append(f.reqs, f.page),
                            !.resps = Append(f.resps, [kind |-> resp, len |-> Len(body)])]
         IN  fetch' = Some(
                 IF resp # "ok"
                 THEN [g EXCEPT !.ret = Some([ok |-> FALSE, repos |-> << >>, err |-> resp])]
                 ELSE IF body = << >>
                 THEN [g EXCEPT !.ret = Some([ok |-> TRUE, repos |-> f.all_repos, err |-> ""])]
                 ELSE [g EXCEPT !.all_repos = MapPage(f.provider, body, 0, now),
                                !.page = f.page + 1])
    /\ UNCHANGED <<store, fs, nextId, now, pc, cmd, repos, idx, res, outcome, creates,
                   start, ucall, uret, app>>

\* FetchPage that returns the records of the earlier pages when a request fails
FetchPageKeepsPartial ==
    /\ fetch # None
    /\ fetch[1].ret = None
    /\ \E resp \in Responses :
         LET f == fetch[1]
             body == PageBody(f.remote, f.page)
             g == [f EXCEPT !.reqs = Append(f.reqs, f.page),
                            !.resps = Append(f.resps, [kind |-> resp, len |-> Len(body)])]
         IN  fetch' = Some(
                 IF resp # "ok" \/ body = << >>
                 THEN [g EXCEPT !.ret = Some([ok |-> TRUE, repos |-> f.all_repos, err |-> ""])]
                 ELSE [g EXCEPT !.all_repos = f.all_repos
                                    \o MapPage(f.provider, body, Len(f.all_repos), now),
                                !.page = f.page + 1])
    /\ UNCHANGED <<store, fs, nextId, now, pc, cmd, repos, idx, res, outcome, creates,
                   start, ucall, uret, app>>

\* FetchPage that takes a page with fewer records than the remote's page
\* size for the last one
FetchPageStopsOnShortPage ==
    /\ fetch # None
    /\ fetch[1].ret = None
    /\ \E resp \in Responses :
         LET f == fetch[1]
             body == PageBody(f.remote, f.page)
             g == [f EXCEPT !.reqs = Append(f.reqs, f.page),
                            !.resps = Append(f.resps, [kind |-> resp, len |-> Len(body)])]
             all == f.all_repos \o MapPage(f.provider, body, Len(f.all_repos), now)
         IN  fetch' = Some(
                 IF resp # "ok"
                 THEN [g EXCEPT !.ret = Some([ok |-> FALSE, repos |-> << >>, err |-> resp])]
                 ELSE IF Len(body) < MaxPageLen
                 THEN [g EXCEPT !.all_repos = all,
                                !.ret = Some([ok |-> TRUE, repos |-> all, err |-> ""])]
                 ELSE [g EXCEPT !.all_repos = all, !.page = f.page + 1])
    /\ UNCHANGED <<store, fs, nextId, now, pc, cmd, repos, idx, res, outcome, creates,
                   start, ucall, uret, app>>

\* One turn of the loop (github.rs lines 60-100, gitlab.rs lines 64-105): the
\* request for the page, the ? on a send error, the return on a non-success
\* status, the ? on a body that does not parse, the break on an empty body,
\* else the push of each record and page += 1.
FetchPage ==
    /\ fetch # None
    /\ fetch[1].ret = None
    /\ \E resp \in Responses :
         LET f == fetch[1]
             body == PageBody(f.remote, f.page)
             g == [f EXCEPT !.reqs = Append(f.reqs, f.page),
                            !.resps = Append(f.resps, [kind |-> resp, len |-> Len(body)])]
         IN  fetch' = Some(
                 IF resp # "ok"
                 THEN [g EXCEPT !.ret = Some([ok |-> FALSE, repos |-> << >>, err |-> resp])]
                 ELSE IF body = << >>
                 THEN [g EXCEPT !.ret = Some([ok |-> TRUE, repos |-> f.all_repos, err |-> ""])]
                 ELSE [g EXCEPT !.all_repos = f.all_repos
                                    \o MapPage(f.provider, body, Len(f.all_repos), now),
                                !.page = f.page + 1])
    /\ UNCHANGED <<store, fs, nextId, now, pc, cmd, repos, idx, res, outcome, creates,
                   start, ucall, uret, app>>

FetchNext == FetchPage

FetchSpec == FetchInit /\ [][FetchNext]_vars

\* the loop has no await but the request: a run that has not returned takes
\* its next turn
FetchFairSpec == FetchSpec /\ WF_vars(FetchPage)

-----------------------------------------------------------------------------
(* pull-all run alone, with the clock advancing, on every store the sync   *)
(* and clone commands leave for two repositories and every state of their  *)
(* directories.                                                            *)

\* the states the commands leave the row of a discovered repository in: as
\* created, cloned, cloned and pulled, clone failed
RowStates(repo) ==
    LET cloned == update_status(set_local_path(repo, get_repo_path(repo), 0), "Cloned", 0)
    IN  {repo, cloned, update_pulled_at(cloned, 0, 0), update_status(repo, "Error", 0)}

\* the stores with at most one row for each of the two repositories of user u
PullStores ==
    LET page == GitHubListing("users", "u")[1]
        a == MapGitHubRepo(page[1][1], 1, 0)
        b == MapGitHubRepo(page[2][1], 2, 0)
    IN  {A \cup B : A \in {{}} \cup {{r} : r \in RowStates(a)},
                    B \in {{}} \cup {{r} : r \in RowStates(b)}}

\* what may be at a path of the clone base directory
PathStates == {"absent", "worktree", "plain"}

PullInit ==
    /\ store \in PullStores
    /\ fs \in [Paths -> PathStates]
    /\ nextId = 2
    /\ now = 0
    /\ InitIdle
    /\ ucall = None
    /\ uret = None
    /\ fetch = None
    /\ app = None

\* Utc::now() reads a later time
Tick ==
    /\ now < MaxNow
    /\ now' = now + 1
    /\ UNCHANGED <<store, fs, nextId, pc, cmd, repos, idx, res, outcome, creates,
                   start, ucall, uret, fetch, app>>

PullNext ==
    \/ StartPullAll(1)
    \/ Load(1)
    \/ PullAt(1, Later(now))
    \/ PullUpdate(1)
    \/ StoreError(1)
    \/ Exit(1)
    \/ Tick

PullSpec == PullInit /\ [][PullNext]_vars

-----------------------------------------------------------------------------
(* One call of GitOperations::clone_repository for every state of the      *)
(* destination.                                                            *)

DestInit ==
    /\ store = {}
    /\ fs \in [Paths -> PathStates]
    /\ nextId = 0
    /\ now = 0
    /\ InitIdle
    /\ ucall \in {Some(c) : c \in UrlCalls}
    /\ uret = None
    /\ fetch = None
    /\ app = None

DestSpec == DestInit /\ [][UrlNext]_vars

-----------------------------------------------------------------------------
(* The sync of a GitLab user and of a GitLab subgroup whose namespace path *)
(* is the user's name, one command at a time.                              *)

SubgroupCommands ==
    {Command("clone-user", "GitLab", "u", DefaultConfig),
     Command("clone-org", "GitLab", "x%2Fu", DefaultConfig)}

SubgroupNext ==
    \/ StartSyncOf(1, SubgroupCommands)
    \/ Lookup(1)
    \/ Create(1)
    \/ Clone(1)
    \/ Update(1)
    \/ StoreError(1)
    \/ Exit(1)

SubgroupSpec == Init /\ [][SubgroupNext]_vars

-----------------------------------------------------------------------------
(* The commands one at a time with the clock advancing and the user        *)
(* removing clone directories between the steps.                           *)

\* the user removes a directory under the clone base directory
RemoveDir ==
    /\ \E path \in Paths :
         /\ fs[path] # "absent"
         /\ fs' = [fs EXCEPT ![path] = "absent"]
    /\ UNCHANGED <<store, nextId, now, pc, cmd, repos, idx, res, outcome, creates,
                   start, ucall, uret, fetch, app>>

\* the sync commands of this specification
TimedCommands == {Command("clone-user", "GitLab", "u", DefaultConfig)}

\* the clone <repo> command of this specification
TimedCloneCommands == {Command("clone", "", "u/a", DefaultConfig)}

TimedNext ==
    \/ StartSyncOf(1, TimedCommands)
    \/ Lookup(1)
    \/ Create(1)
    \/ Clone(1)
    \/ Update(1)
    \/ StartCloneOf(1, TimedCloneCommands)
    \/ LookupByName(1)
    \/ StartPullAll(1)
    \/ Load(1)
    \/ PullAt(1, Later(now))
    \/ PullUpdate(1)
    \/ StoreError(1)
    \/ Exit(1)
    \/ Tick
    \/ RemoveDir
    \/ (pc[1] = "idle" /\ TuiDelete)

TimedSpec == Init /\ [][TimedNext]_vars

-----------------------------------------------------------------------------
(* The three mutators of Repository called in any order on one record in   *)
(* memory, with the clock advancing between and inside the calls.  ucall   *)
(* is the last call and the record it was made on, uret the record after   *)
(* it.                                                                     *)

\* enum CloneStatus
CloneStatuses == {"NotCloned", "Cloning", "Cloned", "UpdateAvailable", "Updating", "Error"}

MutateInit ==
    /\ store = {}
    /\ fs = [path \in Paths |-> "absent"]
    /\ nextId = 1
    /\ now = 0
    /\ InitIdle
    /\ ucall = None
    /\ uret = Some(MapGitHubRepo(GitHubListing("users", "u")[1][1][1], 1, 0))
    /\ fetch = None
    /\ app = None

\* repo.update_status(status)
UpdateStatusCall ==
    /\ \E status \in CloneStatuses :
         /\ ucall' = Some([fn |-> "update_status", status |-> status, path |-> <<>>,
                           at |-> now, before |-> uret[1]])
         /\ uret' = Some(update_status(uret[1], status, now))
    /\ UNCHANGED <<store, fs, nextId, now, pc, cmd, repos, idx, res, outcome, creates,
                   start, fetch, app>>

\* repo.set_local_path(path)
SetLocalPathCall ==
    /\ \E path \in Paths :
         /\ ucall' = Some([fn |-> "set_local_path", status |-> "", path |-> path,
                           at |-> now, before |-> uret[1]])
         /\ uret' = Some(set_local_path(uret[1], path, now))
    /\ UNCHANGED <<store, fs, nextId, now, pc, cmd, repos, idx, res, outcome, creates,
                   start, fetch, app>>

\* repo.update_pulled_at(): Utc::now() is read twice
UpdatePulledAtCall ==
    /\ now' \in Later(now)
    /\ ucall' = Some([fn |-> "update_pulled_at", status |-> "", path |-> <<>>,
                      at |-> now, before |-> uret[1]])
    /\ uret' = Some(update_pulled_at(uret[1], now, now'))
    /\ UNCHANGED <<store, fs, nextId, pc, cmd, repos, idx, res, outcome, creates,
                   start, fetch, app>>

MutateNext ==
    \/ UpdateStatusCall
    \/ SetLocalPathCall
    \/ UpdatePulledAtCall
    \/ Tick

MutateSpec == MutateInit /\ [][MutateNext]_vars

-----------------------------------------------------------------------------
(* One call of Provider::from_str on every casing of the two provider      *)
(* names and on texts near them, or of to_string followed by from_str.     *)

\* the upper case form of the letters of the provider names
UpperChar(c) ==
    CASE c = "g" -> "G" [] c = "i" -> "I" [] c = "t" -> "T" [] c = "h" -> "H"
      [] c = "u" -> "U" [] c = "b" -> "B" [] c = "l" -> "L" [] c = "a" -> "A"

\* every way to type the word w in upper and lower case letters
Casings(w) ==
    {[i \in 1..Len(w) |-> IF up[i] THEN UpperChar(w[i]) ELSE w[i]] :
        up \in [1..Len(w) -> BOOLEAN]}

\* characters that are no casing of a letter of the provider names: x, the
\* space, the dotted capital I and the Kelvin sign
OtherChars == {"x", " ", "U+0130", "U+212A"}

\* texts that differ from a casing of w in one character, or by a character
\* more or less
Near(w) ==
    {[w EXCEPT ![i] = c] : i \in 1..Len(w), c \in OtherChars}
        \cup {<<UpperChar(w[1])>> \o Tail([w EXCEPT ![i] = c]) :
                 i \in 2..Len(w), c \in OtherChars}
        \cup {SubSeq(w, 1, Len(w) - 1), Tail(w), w \o <<"s">>, w \o <<"S">>,
              <<" ">> \o w, w \o <<" ">>}

ParseInputs ==
    Casings(to_string("GitHub")) \cup Casings(to_string("GitLab"))
        \cup Near(to_string("GitHub")) \cup Near(to_string("GitLab"))
        \cup {<< >>, <<"s", "v", "n">>, <<"g", "i", "t">>,
              <<"g", "i", "t", "h", "u", "b", "g", "i", "t", "l", "a", "b">>}

ParseInit ==
    /\ InitPipeline
    /\ ucall \in {Some([fn |-> "from_str", s |-> x, p |-> ""]) : x \in ParseInputs}
                 \cup {Some([fn |-> "to_string", s |-> << >>, p |-> pr]) : pr \in Providers}
    /\ uret = None
    /\ fetch = None
    /\ app = None

\* s.parse::<Provider>()
FromStrCall ==
    /\ ucall[1].fn = "from_str"
    /\ uret = None
    /\ uret' = Some([text |-> ucall[1].s, parsed |-> from_str(ucall[1].s)])
    /\ UNCHANGED <<store, fs, nextId, now, pc, cmd, repos, idx, res, outcome, creates,
                   start, ucall, fetch, app>>

\* p.to_string().parse::<Provider>()
ToStringCall ==
    /\ ucall[1].fn = "to_string"
    /\ uret = None
    /\ uret' = Some([text |-> to_string(ucall[1].p),
                     parsed |-> from_str(to_string(ucall[1].p))])
    /\ UNCHANGED <<store, fs, nextId, now, pc, cmd, repos, idx, res, outcome, creates,
                   start, ucall, fetch, app>>

ParseNext ==
    \/ FromStrCall
    \/ ToStringCall

ParseSpec == ParseInit /\ [][ParseNext]_vars

-----------------------------------------------------------------------------
(* One record built: by Repository::new from any arguments, or by the      *)
(* mapping of fetch_repos / fetch_projects from any item of a page.        *)

\* the visibility strings of a GitLab project, and two that GitLab does not
\* send
Visibilities == {"public", "internal", "private", "Public", ""}

NewArguments ==
    {[name |-> n, full_name |-> f, owner |-> o, provider |-> pr,
      clone_url_https |-> <<"https://", "example.org/", f, ".git">>,
      clone_url_ssh |-> <<"git@example.org:", f, ".git">>,
      description |-> d, is_private |-> b] :
        n \in {"a", "b"}, f \in {"u/a", "x/u/b"}, o \in {"u", "g"}, pr \in Providers,
        d \in {None, Some("text")}, b \in BOOLEAN}

GitHubItems ==
    {[GitHubRepo(n, f, o, b) EXCEPT !.description = d] :
        n \in {"a", "b"}, f \in {"u/a", "g/b"}, o \in {"u", "g"}, b \in BOOLEAN,
        d \in {None, Some("text")}}

GitLabItems ==
    {[GitLabProject(n, f, o, v) EXCEPT !.description = d] :
        n \in {"a", "b"}, f \in {"u/a", "x/u/b"}, o \in {"u", "g"}, v \in Visibilities,
        d \in {None, Some("text")}}

RecordInit ==
    /\ store = {}
    /\ fs = [path \in Paths |-> "absent"]
    /\ nextId \in 0..(MaxIds - 1)
    /\ now \in 0..MaxNow
    /\ InitIdle
    /\ ucall \in {Some([fn |-> "new", item |-> x]) : x \in NewArguments}
                 \cup {Some([fn |-> "github", item |-> x]) : x \in GitHubItems}
                 \cup {Some([fn |-> "gitlab", item |-> x]) : x \in GitLabItems}
    /\ uret = None
    /\ fetch = None
    /\ app = None

\* Repository::new(name, full_name, owner, provider, ...)
NewCall ==
    /\ ucall[1].fn = "new"
    /\ uret = None
    /\ LET x == ucall[1].item
       IN  uret' = Some(RepositoryNew(nextId + 1, now, x.name, x.full_name, x.owner,
                                      x.provider, x.clone_url_https, x.clone_url_ssh,
                                      x.description, x.is_private))
    /\ nextId' = nextId + 1
    /\ UNCHANGED <<store, fs, now, pc, cmd, repos, idx, res, outcome, creates,
                   start, ucall, fetch, app>>

\* github.rs lines 86-97 on one item of a page
MapGitHubCall ==
    /\ ucall[1].fn = "github"
    /\ uret = None
    /\ uret' = Some(MapGitHubRepo(ucall[1].item, nextId + 1, now))
    /\ nextId' = nextId + 1
    /\ UNCHANGED <<store, fs, now, pc, cmd, repos, idx, res, outcome, creates,
                   start, ucall, fetch, app>>

\* gitlab.rs lines 90-102 on one item of a page
MapGitLabCall ==
    /\ ucall[1].fn = "gitlab"
    /\ uret = None
    /\ uret' = Some(MapGitLabProject(ucall[1].item, nextId + 1, now))
    /\ nextId' = nextId + 1
    /\ UNCHANGED <<store, fs, now, pc, cmd, repos, idx, res, outcome, creates,
                   start, ucall, fetch, app>>

RecordNext ==
    \/ NewCall
    \/ MapGitHubCall
    \/ MapGitLabCall

RecordSpec == RecordInit /\ [][RecordNext]_vars

-----------------------------------------------------------------------------
(* The list command on every store the commands leave for a GitHub and a   *)
(* GitLab repository, with every combination of its two options.           *)

\* the stores with at most one row for u/a of GitHub and u/b of GitLab
ListStores ==
    LET a == MapGitHubRepo(GitHubListing("users", "u")[1][1][1], 1, 0)
        b == MapGitLabProject(GitLabListing("groups", "g")[1][1][1], 2, 0)
    IN  {A \cup B : A \in {{}} \cup {{r} : r \in RowStates(a)},
                    B \in {{}} \cup {{r} : r \in RowStates(b)}}

\* list [--provider <text>] [--cloned]
ListArguments ==
    {[provider |-> pr, cloned |-> c] :
        pr \in {None, Some("github"), Some("gitlab"), Some("GitHub")}, c \in BOOLEAN}

ListInit ==
    /\ store \in ListStores
    /\ fs = [path \in Paths |-> "absent"]
    /\ nextId = 2
    /\ now = 0
    /\ InitIdle
    /\ ucall \in {Some(x) : x \in ListArguments}
    /\ uret = None
    /\ fetch = None
    /\ app = None

\* main.rs lines 396-403: the records the list command prints; uret is the
\* Vec it iterates over
List ==
    /\ uret = None
    /\ \E rows \in (IF ucall[1].provider # None
                     THEN get_repositories_by_provider(store, ucall[1].provider[1])
                     ELSE IF ucall[1].cloned
                     THEN get_repositories_by_status(store, "Cloned")
                     ELSE get_all_repositories(store)) :
         uret' = Some(rows)
    /\ UNCHANGED <<store, fs, nextId, now, pc, cmd, repos, idx, res, outcome, creates,
                   start, ucall, fetch, app>>

ListSpec == ListInit /\ [][List]_vars

-----------------------------------------------------------------------------
(* pull-all in one process and clone u/a in another, on every store the    *)
(* commands leave for the two repositories of user u, while the user may   *)
(* remove a clone directory.                                               *)

RaceCloneCommands == {Command("clone", "", "u/a", DefaultConfig)}

\* every directory of a record with a local_path is there as it was cloned
RaceInit ==
    /\ store \in PullStores
    /\ fs = [path \in Paths |->
                IF \E r \in store : r.local_path = Some(path) THEN "worktree" ELSE "absent"]
    /\ nextId = 2
    /\ now = 0
    /\ InitIdle
    /\ ucall = None
    /\ uret = None
    /\ fetch = None
    /\ app = None

RaceNext ==
    \/ StartPullAll(1)
    \/ Load(1)
    \/ Pull(1)
    \/ PullUpdate(1)
    \/ StartCloneOf(2, RaceCloneCommands)
    \/ LookupByName(2)
    \/ Clone(2)
    \/ Update(2)
    \/ StoreError(1)
    \/ StoreError(2)
    \/ Exit(1)
    \/ Exit(2)
    \/ RemoveDir

RaceSpec == RaceInit /\ [][RaceNext]_vars

-----------------------------------------------------------------------------
(* tui/mod.rs: the interactive list, one action per key, on every store    *)
(* the commands leave for a GitHub and a GitLab repository.  selected is   *)
(* an Option of a 0-based index: the record at index i is repos[i + 1].    *)

\* enum Filter
Filters == {"All", "GitHub", "GitLab", "Cloned", "NotCloned"}

\* the query of refresh_repos for each filter: the Vecs it may return
FilteredRows(st, filter) ==
    CASE filter = "All" -> get_all_repositories(st)
      [] filter = "GitHub" -> get_repositories_by_provider(st, "github")
      [] filter = "GitLab" -> get_repositories_by_provider(st, "gitlab")
      [] filter = "Cloned" -> get_repositories_by_status(st, "Cloned")
      [] filter = "NotCloned" -> get_repositories_by_status(st, "NotCloned")

\* "Adjust selection if needed" of refresh_repos
AdjustedSelection(rows, selected) ==
    IF rows = << >> THEN None
    ELSE IF selected # None
    THEN IF selected[1] >= Len(rows) THEN Some(Len(rows) - 1) ELSE selected
    ELSE Some(0)

\* usize::saturating_sub(1)
SaturatingSub1(n) == IF n = 0 THEN 0 ELSE n - 1

\* App::refresh_repos: the Apps it may leave, for the rows of st
refresh_repos(a, st, key) ==
    {[repos |-> rows, selected |-> AdjustedSelection(rows, a.selected),
      filter |-> a.filter, key |-> key] : rows \in FilteredRows(st, a.filter)}

\* App::new, then the refresh_repos at the head of run_app
TuiInit ==
    /\ store \in ListStores
    /\ fs = [path \in Paths |-> "absent"]
    /\ nextId = 2
    /\ now = 0
    /\ InitIdle
    /\ ucall = None
    /\ uret = None
    /\ fetch = None
    /\ app \in {Some(a) : a \in refresh_repos([repos |-> << >>, selected |-> Some(0),
                                                  filter |-> "All", key |-> ""],
                                                 store, "")}

\* KeyCode::Char('d')
KeyDelete ==
    /\ app[1].selected # None
    /\ app[1].selected[1] < Len(app[1].repos)
    /\ LET repo == app[1].repos[app[1].selected[1] + 1]
       IN  /\ store' = delete_repository(store, repo.id)
           /\ app' \in {Some(a) : a \in refresh_repos(app[1], store', "d")}
    /\ UNCHANGED <<fs, nextId, now, pc, cmd, repos, idx, res, outcome, creates,
                   start, ucall, uret, fetch>>

\* KeyCode::Char('r')
KeyRefresh ==
    /\ app' \in {Some(a) : a \in refresh_repos(app[1], store, "r")}
    /\ UNCHANGED <<store, fs, nextId, now, pc, cmd, repos, idx, res, outcome, creates,
                   start, ucall, uret, fetch>>

\* KeyCode::Char('a'), 'g', 'l', 'c', 'n'
KeyFilter ==
    /\ \E filter \in Filters :
         app' \in {Some(a) : a \in refresh_repos([app[1] EXCEPT !.filter = filter],
                                                  store, "filter")}
    /\ UNCHANGED <<store, fs, nextId, now, pc, cmd, repos, idx, res, outcome, creates,
                   start, ucall, uret, fetch>>

\* KeyCode::Down
KeyDown ==
    /\ LET i == IF app[1].selected # None
                THEN IF app[1].selected[1] >= SaturatingSub1(Len(app[1].repos))
                     THEN 0
                     ELSE app[1].selected[1] + 1
                ELSE 0
       IN  app' = Some([app[1] EXCEPT !.selected = Some(i), !.key = "Down"])
    /\ UNCHANGED <<store, fs, nextId, now, pc, cmd, repos, idx, res, outcome, creates,
                   start, ucall, uret, fetch>>

\* KeyCode::Up
KeyUp ==
    /\ LET i == IF app[1].selected # None
                THEN IF app[1].selected[1] = 0
                     THEN SaturatingSub1(Len(app[1].repos))
                     ELSE app[1].selected[1] - 1
                ELSE 0
       IN  app' = Some([app[1] EXCEPT !.selected = Some(i), !.key = "Up"])
    /\ UNCHANGED <<store, fs, nextId, now, pc, cmd, repos, idx, res, outcome, creates,
                   start, ucall, uret, fetch>>

\* App::handle_input
TuiNext ==
    \/ KeyDelete
    \/ KeyRefresh
    \/ KeyFilter
    \/ KeyDown
    \/ KeyUp

TuiSpec == TuiInit /\ [][TuiNext]_vars

-----------------------------------------------------------------------------
(* Claims.  In a sync or clone-by-name command outcome[p][i] is the result *)
(* of the clone attempt on repos[p][i].                                    *)

SyncEnded(p) == pc[p] = "done" /\ IsSync(cmd[p])

RowsNamed(full_name) == {r \in store : r.full_name = full_name}

\* C1: when a sync command has ended, every discovered record whose clone
\* attempt succeeded is stored with status cloned and the returned path as
\* local_path, whether this run created its row or the row was there before.
C1_SuccessIsStored ==
    \A p \in Procs :
        SyncEnded(p) =>
            \A i \in 1..Len(outcome[p]) :
                outcome[p][i].ok =>
                    /\ RowsNamed(repos[p][i].full_name) # {}
                    /\ \A r \in RowsNamed(repos[p][i].full_name) :
                          /\ r.status = "cloned"
                          /\ r.local_path = Some(outcome[p][i].path)

\* C2: a stored record in Error status whose clone then succeeds, in a sync
\* command or in clone-by-name, is stored as Cloned with a local_path by the
\* update that follows the clone.
C2_ErrorThenCloned ==
    [][\A p \in Procs :
          (pc[p] = "update" /\ pc'[p] \in {"clone", "done"} /\ res[p][1].ok) =>
              \A r \in RowsNamed(Current(p).full_name) :
                  r.status = "error" =>
                      \E r2 \in store' :
                          /\ r2.id = r.id
                          /\ r2.status = "cloned"
                          /\ r2.local_path # None]_vars

\* C3: when a sync command has ended, every discovered record whose clone
\* attempt failed is stored with status error.
C3_FailureIsStored ==
    \A p \in Procs :
        SyncEnded(p) =>
            \A i \in 1..Len(outcome[p]) :
                ~outcome[p][i].ok =>
                    /\ RowsNamed(repos[p][i].full_name) # {}
                    /\ \A r \in RowsNamed(repos[p][i].full_name) : r.status = "error"

\* C4: a sync command that ends without a store failure has attempted the
\* clone of every discovered repository, whichever attempts failed, and a row
\* this run created has status error exactly when its clone attempt failed.
C4_BatchResilience ==
    \A p \in Procs :
        SyncEnded(p) =>
            /\ Len(outcome[p]) = Len(repos[p])
            /\ \A i \in 1..Len(repos[p]) :
                  \A r \in store :
                      r.id = repos[p][i].id => (r.status = "error" <=> ~outcome[p][i].ok)

\* C4: a run over two new repositories, the first clone failed, the second
\* was attempted and succeeded
C4_Witness ==
    \E p \in Procs :
        /\ SyncEnded(p)
        /\ Len(repos[p]) = 2
        /\ creates[p] = 2
        /\ ~outcome[p][1].ok
        /\ outcome[p][2].ok
        /\ \E r \in store : r.id = repos[p][1].id /\ r.status = "error"
        /\ \E r \in store : r.id = repos[p][2].id /\ r.status = "cloned"


C6_Idempotence ==
    \A p \in Procs :
        SyncEnded(p) =>
            /\ AllStored(store, repos[p])
            /\ start[p].known => (creates[p] = 0 /\ Cardinality(store) = start[p].rows)

\* C6: a second run over two repositories that were all stored has ended
C6_Witness ==
    \E p \in Procs :
        /\ SyncEnded(p)
        /\ start[p].known
        /\ Len(repos[p]) = 2
        /\ repos[p][1].full_name # repos[p][2].full_name
        /\ creates[p] = 0
        /\ Cardinality(store) = 2

\* C7: with one command at a time, no two rows have the same full_name.
C7_UniqueFullName ==
    \A r1, r2 \in store : r1.full_name = r2.full_name => r1 = r2

\* C7: a clone-all-orgs run whose discovery listed one full_name twice has
\* created its row, once
C7_Witness ==
    \E p \in Procs :
        /\ SyncEnded(p)
        /\ cmd[p].kind = "clone-all-orgs"
        /\ Len(repos[p]) = 2
        /\ repos[p][1].full_name = repos[p][2].full_name
        /\ creates[p] = 1
        /\ Cardinality(RowsNamed(repos[p][1].full_name)) = 1

\* C8: two sync commands that started on an empty store and have both ended
\* leave exactly one row for every full_name both discovered.
C8_OneRowPerFullName ==
    \A p, q \in Procs :
        (p # q /\ SyncEnded(p) /\ SyncEnded(q) /\ start[p].rows = 0 /\ start[q].rows = 0) =>
            \A i \in 1..Len(repos[p]) :
                (\E j \in 1..Len(repos[q]) : repos[q][j].full_name = repos[p][i].full_name) =>
                    Cardinality(RowsNamed(repos[p][i].full_name)) = 1

\* the URL inject_token_into_url builds from the tokens of the command line
ConfiguredUrl(c, repo) ==
    inject_token_into_url(GitOperationsWithTokens("base", c.github_token, c.gitlab_token),
                          repo.clone_url_https, ProviderFromStr(repo.provider)[1],
                          repo.is_private)

\* C9: in a sync or clone-by-name command without --ssh, for a private
\* record with an https:// URL and a token configured for its provider, the
\* URL handed to git clone is the URL with the token in it.
C9_TokenUrlHandedToGit ==
    \A p \in Procs :
        (IsSync(cmd[p]) \/ cmd[p].kind = "clone") =>
            \A i \in 1..Len(outcome[p]) :
                (/\ outcome[p][i].url # None
                 /\ ~cmd[p].use_ssh
                 /\ repos[p][i].is_private
                 /\ StartsWithHttps(repos[p][i].clone_url_https)
                 /\ TokenPresent(cmd[p], ProviderFromStr(repos[p][i].provider)[1])) =>
                    /\ outcome[p][i].url[1] = ConfiguredUrl(cmd[p], repos[p][i])
                    /\ outcome[p][i].url[1] # repos[p][i].clone_url_https

\* C10: with use_ssh the URL handed to git clone is the record's SSH URL,
\* whatever the privacy flag, the provider and the tokens are.
C10_SshUrlUnchanged ==
    (uret # None /\ ucall[1].use_ssh) =>
        uret[1].url = Some(ucall[1].repo.clone_url_ssh)

\* C10: a call with use_ssh on a private record whose provider has a token
C10_Witness ==
    /\ uret # None
    /\ ucall[1].use_ssh
    /\ ucall[1].repo.is_private
    /\ ucall[1].repo.provider = "gitlab"
    /\ ucall[1].git_ops.gitlab_token # None
    /\ StartsWithHttps(ucall[1].repo.clone_url_https)
    /\ uret[1].url = Some(ucall[1].repo.clone_url_ssh)

\* the token GitOperations holds for a provider
TokenOf(git_ops, provider) ==
    IF provider = "GitHub" THEN git_ops.github_token ELSE git_ops.gitlab_token

\* C11: inject_token_into_url returns its url argument unchanged when the
\* repository is not private or the URL does not start with https://,
\* whichever tokens are configured.
C11_PublicOrNotHttpsUnchanged ==
    (uret # None /\ (~ucall[1].is_private \/ ~StartsWithHttps(ucall[1].url))) =>
        uret[1] = ucall[1].url

\* C11: a call for a public repository with an https:// URL and the token of
\* its provider configured has returned the URL as it was
C11_Witness ==
    /\ uret # None
    /\ ~ucall[1].is_private
    /\ StartsWithHttps(ucall[1].url)
    /\ TokenOf(ucall[1].git_ops, ucall[1].provider) # None
    /\ uret[1] = ucall[1].url

\* the text inserted after https:// for a provider and a token
Credential(provider, token) ==
    IF provider = "GitHub" THEN <<token, "@">> ELSE <<"oauth2:", token, "@">>

\* C12: for a private repository, an https:// URL and a token T of its
\* provider, inject_token_into_url returns the URL with one insertion, right
\* after the leading https://: T@ for GitHub, oauth2:T@ for GitLab; the rest
\* of the URL is as it was, also when it holds the text https:// again.
C12_OneInsertionAfterScheme ==
    (/\ uret # None
     /\ ucall[1].is_private
     /\ StartsWithHttps(ucall[1].url)
     /\ TokenOf(ucall[1].git_ops, ucall[1].provider) # None) =>
        uret[1] = <<"https://">>
                    \o Credential(ucall[1].provider,
                                  TokenOf(ucall[1].git_ops, ucall[1].provider)[1])
                    \o Tail(ucall[1].url)

\* C13: for a private repository and an https:// URL, inject_token_into_url
\* returns the URL unchanged when no token of the record's own provider is
\* configured, also when the token of the other provider is.
C13_NoOwnTokenUnchanged ==
    (/\ uret # None
     /\ ucall[1].is_private
     /\ StartsWithHttps(ucall[1].url)
     /\ TokenOf(ucall[1].git_ops, ucall[1].provider) = None) =>
        uret[1] = ucall[1].url

\* C13: a call for a private GitHub repository with only the GitLab token
\* configured has returned the URL as it was
C13_Witness ==
    /\ uret # None
    /\ ucall[1].is_private
    /\ StartsWithHttps(ucall[1].url)
    /\ ucall[1].provider = "GitHub"
    /\ ucall[1].git_ops.github_token = None
    /\ ucall[1].git_ops.gitlab_token # None
    /\ uret[1] = ucall[1].url

\* the number of the first page of a remote that is empty
FirstEmptyPage(remote) ==
    CHOOSE k \in 1..(Len(remote) + 1) :
        /\ PageBody(remote, k) = << >>
        /\ \A j \in 1..(k - 1) : PageBody(remote, j) # << >>

\* the records of pages 1..n of a remote, in page order
RECURSIVE PagesUpTo(_, _)
PagesUpTo(remote, n) ==
    IF n = 0 THEN << >> ELSE PagesUpTo(remote, n - 1) \o remote[n]

\* full_name, owner and privacy of a record as the API lists it
ListedAs(provider, item) ==
    IF provider = "GitHub"
    THEN [full_name |-> item.full_name, owner |-> item.owner, is_private |-> item.private]
    ELSE [full_name |-> item.path_with_namespace, owner |-> item.namespace,
          is_private |-> item.visibility # "public"]

\* a remote of Len(sizes) pages, page p holding sizes[p] records
PagesOfSizes(provider, sizes) ==
    [p \in 1..Len(sizes) |-> [k \in 1..sizes[p] |-> RemoteItem(provider, 1)]]

\* C14: when every request succeeds, the loop returns the records of pages
\* 1..k-1 in page order, k being the first empty page; pages of sizes
\* 100, 100, 37, 0 give 237 records and a first page that is empty gives none.
C14_ConcatenationOfPages ==
    /\ (/\ fetch # None
        /\ fetch[1].ret # None
        /\ \A i \in 1..Len(fetch[1].resps) : fetch[1].resps[i].kind = "ok") =>
            LET f == fetch[1]
                listed == PagesUpTo(f.remote, FirstEmptyPage(f.remote) - 1)
            IN  /\ f.ret[1].ok
                /\ Len(f.ret[1].repos) = Len(listed)
                /\ \A i \in 1..Len(listed) :
                      LET r == f.ret[1].repos[i]
                      IN  [full_name |-> r.full_name, owner |-> r.owner,
                           is_private |-> r.is_private] = ListedAs(f.provider, listed[i])
                /\ f.ret[1].repos =
                      IF f.provider = "GitHub"
                      THEN fetch_repos(Some(f.remote), 0, 0, 0, now).repos
                      ELSE fetch_projects(Some(f.remote), 0, 0, 0, now).repos
    /\ Len(fetch_repos(Some(PagesOfSizes("GitHub", <<per_page, per_page, 37, 0>>)),
                       0, 0, 0, 0).repos) = 237
    /\ Len(fetch_projects(Some(PagesOfSizes("GitLab", <<per_page, per_page, 37, 0>>)),
                          0, 0, 0, 0).repos) = 237
    /\ fetch_repos(Some(PagesOfSizes("GitHub", <<0>>)), 0, 0, 0, 0).repos = << >>
    /\ fetch_projects(Some(PagesOfSizes("GitLab", <<0>>)), 0, 0, 0, 0).repos = << >>

\* C14: a run over three pages that are not empty has returned their records
C14_Witness ==
    /\ fetch # None
    /\ fetch[1].ret # None
    /\ fetch[1].ret[1].ok
    /\ Len(fetch[1].remote) = 3
    /\ FirstEmptyPage(fetch[1].remote) = 4
    /\ Len(fetch[1].remote[2]) < Len(fetch[1].remote[1])
    /\ Len(fetch[1].ret[1].repos) =
          Len(fetch[1].remote[1]) + Len(fetch[1].remote[2]) + Len(fetch[1].remote[3])

\* C15: a request that comes back with a non-success status or a body that
\* does not parse is the last request of the call, and the call returns an
\* error with none of the records of the earlier pages.
C15_FailureReturnsNoRecords ==
    fetch # None =>
        \A i \in 1..Len(fetch[1].resps) :
            fetch[1].resps[i].kind \in {"status", "parse"} =>
                /\ i = Len(fetch[1].resps)
                /\ Len(fetch[1].reqs) = i
                /\ fetch[1].ret = Some([ok |-> FALSE, repos |-> << >>,
                                        err |-> fetch[1].resps[i].kind])

\* C15: the third request failed after two pages of records had been pushed
C15_Witness ==
    /\ fetch # None
    /\ Len(fetch[1].resps) = 3
    /\ fetch[1].resps[3].kind = "status"
    /\ Len(fetch[1].all_repos) > 2
    /\ fetch[1].ret # None
    /\ ~fetch[1].ret[1].ok
    /\ fetch[1].ret[1].repos = << >>

\* what holds of the requests of a run at every moment: they ask for the pages
\* 1, 2, ... in order; the run has returned exactly when the last answer was
\* a failure or an empty page; every earlier answer was a page with records
RequestsInOrder ==
    fetch # None =>
        LET f == fetch[1]
            n == Len(f.resps)
        IN  /\ Len(f.reqs) = n
            /\ \A i \in 1..n : f.reqs[i] = i
            /\ \A i \in 1..(n - 1) : f.resps[i].kind = "ok" /\ f.resps[i].len > 0
            /\ f.ret # None <=>
                  (n > 0 /\ (f.resps[n].kind # "ok" \/ f.resps[n].len = 0))

\* C16: a discovery call asks for the pages 1, 2, ... in increasing order,
\* stops right after the first empty page or the first failure and not
\* before (a page with fewer than per_page records does not end it), and so
\* returns for every remote that has an empty page after finitely many.
C16_StopsAtFirstEmptyPage ==
    /\ []RequestsInOrder
    /\ <>(fetch # None /\ fetch[1].ret # None)

\* C16: a run has returned after a page of fewer than per_page records
\* that was followed by two more requests
C16_Witness ==
    /\ fetch # None
    /\ fetch[1].ret # None
    /\ Len(fetch[1].reqs) = 3
    /\ fetch[1].resps[1].len > 0
    /\ fetch[1].resps[1].len < per_page
    /\ fetch[1].resps[1].len < MaxPageLen
    /\ fetch[1].resps[3].kind = "ok"
    /\ fetch[1].resps[3].len = 0

PullAllEnded(p) == pc[p] = "done" /\ cmd[p].kind = "pull-all"

\* C17: when pull-all has ended, a pull was attempted for every record it
\* loaded, whichever pulls failed, and the row of a record whose pull failed
\* is stored as it was loaded: status cloned, last_pulled_at and updated_at
\* as before.
C17_FailedPullKeepsRow ==
    \A p \in Procs :
        PullAllEnded(p) =>
            /\ Len(outcome[p]) = Len(repos[p])
            /\ \A i \in 1..Len(outcome[p]) :
                  ~outcome[p][i].ok =>
                      /\ repos[p][i] \in store
                      /\ repos[p][i].status = "cloned"

\* C17: the pull of the first of two records failed and the pull of the
\* second was run and succeeded
C17_Witness ==
    \E p \in Procs :
        /\ PullAllEnded(p)
        /\ Len(repos[p]) = 2
        /\ ~outcome[p][1].ok
        /\ outcome[p][2].ok
        /\ repos[p][1] \in store
        /\ now > 0

\* C18: in pull-all run alone, the update after a successful pull sets
\* last_pulled_at of the stored row to the time read when the pull returned
\* and updated_at to the time read right after, and leaves its status cloned and its id, local_path and created_at as
\* they were; no other row changes; only cloned records are loaded, and no
\* step of the command changes a row whose status is not cloned.
C18_PullRefreshesTimestamps ==
    /\ [][\A p \in Procs :
            (pc[p] = "pulled" /\ pc'[p] \in {"pull", "done"}) =>
                LET old == Current(p)
                    t == res[p][1].at
                    t2 == res[p][1].at2
                IN  /\ old \in store
                    /\ t <= t2
                    /\ t2 <= now
                    /\ \E r2 \in store' :
                          /\ store' = (store \ {old}) \cup {r2}
                          /\ r2.id = old.id
                          /\ r2.last_pulled_at = Some(t)
                          /\ r2.updated_at = t2
                          /\ r2.status = "cloned"
                          /\ r2.local_path = old.local_path
                          /\ r2.created_at = old.created_at]_vars
    /\ [][\A p \in Procs :
            cmd[p].kind = "pull-all" =>
                \A r \in store : r.status # "cloned" => r \in store']_vars
    /\ [](\A p \in Procs :
            cmd[p].kind = "pull-all" =>
                \A i \in 1..Len(repos[p]) : repos[p][i].status = "cloned")

\* C18: pull-all has ended; the row it pulled holds a time later than its
\* creation in last_pulled_at and updated_at, and the row that was not
\* cloned is as it was
C18_Witness ==
    \E p \in Procs :
        /\ PullAllEnded(p)
        /\ Len(repos[p]) = 1
        /\ outcome[p][1].ok
        /\ \E r \in store :
              /\ r.id = repos[p][1].id
              /\ r.status = "cloned"
              /\ r.last_pulled_at # None
              /\ r.last_pulled_at[1] > r.created_at
              /\ r.updated_at >= r.last_pulled_at[1]
        /\ \E r \in store : r.status = "error" /\ r.updated_at = 0

\* C19: pull_repository on a path that does not exist returns an error
\* without running git pull, and the error is not the one it returns when
\* git pull was run and exited non-zero.
C19_MissingPathError ==
    [][\A p \in Procs :
          (/\ pc[p] = "pull"
           /\ pc'[p] # "pull" \/ idx'[p] # idx[p]
           /\ Current(p).local_path # None) =>
              LET path == Current(p).local_path[1]
                  n == Len(outcome'[p])
              IN  /\ fs[path] = "absent" =>
                        /\ n = Len(outcome[p]) + 1
                        /\ ~outcome'[p][n].ok
                        /\ ~outcome'[p][n].ran
                        /\ outcome'[p][n].err = "path does not exist"
                  /\ (fs[path] # "absent" /\ n = Len(outcome[p]) + 1) =>
                        /\ ~outcome'[p][n].ok
                        /\ outcome'[p][n].ran
                        /\ outcome'[p][n].err # "path does not exist"]_vars

\* C19: pull-all has met a cloned record whose directory is gone, and a
\* record whose git pull failed
C19_Witness ==
    \E p \in Procs :
        /\ PullAllEnded(p)
        /\ Len(outcome[p]) = 2
        /\ fs[repos[p][1].local_path[1]] = "absent"
        /\ outcome[p][1] = [ok |-> FALSE, err |-> "path does not exist", ran |-> FALSE]
        /\ fs[repos[p][2].local_path[1]] # "absent"
        /\ outcome[p][2] = [ok |-> FALSE, err |-> "git pull failed", ran |-> TRUE]

\* C20: clone_repository on a destination that exists does not run git
\* clone and leaves the filesystem as it is; it returns Ok(destination) when
\* the destination holds .git and the path-conflict error when it does not.
C20_ExistingDestination ==
    [][(ucall # None /\ uret = None /\ uret' # None) =>
          LET dest == get_repo_path(ucall[1].repo)
          IN  fs[dest] # "absent" =>
                  /\ fs' = fs
                  /\ uret'[1].url = None
                  /\ uret'[1].path = dest
                  /\ fs[dest] = "worktree" => (uret'[1].ok /\ uret'[1].err = "")
                  /\ fs[dest] = "plain" =>
                        /\ ~uret'[1].ok
                        /\ uret'[1].err = "Directory exists but is not a git repository"]_vars

\* C20: a call on a destination that exists without .git has returned the
\* path-conflict error and the destination is as it was
C20_Witness ==
    /\ uret # None
    /\ fs[get_repo_path(ucall[1].repo)] = "plain"
    /\ ~uret[1].ok
    /\ uret[1].url = None
    /\ uret[1].err = "Directory exists but is not a git repository"

\* C21: two distinct rows of the store have distinct clone destinations
\* <base>/<owner>/<name>, so that the clone of one record does not find the
\* working copy of another at its destination.
C21_DistinctDestinations ==
    \A r1, r2 \in store : r1.id # r2.id => get_repo_path(r1) # get_repo_path(r2)

\* C22: every stored status is one of not_cloned, cloned, error; cloning,
\* update_available and updating are never written.
C22_ThreeStatuses ==
    \A r \in store : r.status \in {"not_cloned", "cloned", "error"}

\* C22: pull-all has ended on a store with a cloned row and a row in error
C22_Witness ==
    /\ PullAllEnded(1)
    /\ outcome[1] # << >>
    /\ \E r1, r2 \in store : r1.status = "cloned" /\ r2.status = "error"

\* C23: across every step of a sync, clone-by-name or pull-all command a
\* stored row keeps its id and created_at, and the row stored under a
\* full_name keeps its id when the full_name is discovered again.
C23_IdAndCreatedAtKept ==
    [][\A r \in store : \A r2 \in store' :
          (r2.id = r.id \/ r2.full_name = r.full_name) =>
              (r2.id = r.id /\ r2.created_at = r.created_at)]_vars

\* C23: a sync that discovered a stored full_name again, at a later time,
\* has ended; the row was written since its creation and has the id and
\* created_at of its creation
C23_Witness ==
    /\ SyncEnded(1)
    /\ start[1].known
    /\ outcome[1] # << >>
    /\ \E r \in store :
          /\ r.full_name = repos[1][1].full_name
          /\ r.id # repos[1][1].id
          /\ r.created_at < repos[1][1].created_at
          /\ r.updated_at > r.created_at

\* C24: a stored local_path that is set stays as it is in every step (a
\* failed clone or pull later does not reset it), and a step that sets one
\* is the update after a successful clone of that record.
C24_LocalPathKept ==
    /\ [][\A r \in store : \A r2 \in store' :
            (r2.id = r.id /\ r.local_path # None) => r2.local_path = r.local_path]_vars
    /\ [][\A r2 \in store' :
            (r2.local_path # None /\ \A r \in store : r.id = r2.id => r.local_path = None) =>
                \E p \in Procs :
                    /\ pc[p] = "update"
                    /\ res[p][1].ok
                    /\ Current(p).id = r2.id
                    /\ r2.local_path = Some(res[p][1].path)]_vars

\* C24: the clone of a record that was cloned before has failed: its row is
\* in error and holds the local_path of the earlier clone
C24_Witness ==
    /\ pc[1] = "done"
    /\ cmd[1].kind = "clone"
    /\ Len(outcome[1]) = 1
    /\ ~outcome[1][1].ok
    /\ \E r \in store :
          /\ r.id = repos[1][1].id
          /\ r.status = "error"
          /\ r.local_path = Some(get_repo_path(r))

\* C26: a step of a sync, clone-by-name or pull-all command removes no row:
\* every stored id is still stored after it; only the delete key of the
\* interactive list, between two commands, removes one.
C26_CommandsDeleteNothing ==
    [][~(pc[1] = "idle" /\ pc'[1] = "idle") =>
          \A r \in store : \E r2 \in store' : r2.id = r.id]_vars

\* C26: the second sync command has ended with a failed clone and a
\* successful one, and the rows of both are stored
C26_Witness ==
    /\ SyncEnded(1)
    /\ start[1].rows = 2
    /\ Cardinality(store) = 2
    /\ Len(outcome[1]) = 2
    /\ ~outcome[1][1].ok
    /\ outcome[1][2].ok

\* C25: each of update_status, set_local_path and update_pulled_at sets its
\* own field to the given or current value, sets updated_at to a time not
\* earlier than its previous value, and leaves id, created_at and the fields
\* it does not own unchanged; update_status(s) leaves status equal to the
\* string form of s.
C25_MutatorFrame ==
    ucall # None =>
        LET c == ucall[1]
            b == c.before
            a == uret[1]
        IN  /\ a.updated_at >= b.updated_at
            /\ a.updated_at >= c.at
            /\ \A f \in {"id", "created_at", "name", "full_name", "owner", "provider",
                          "clone_url_https", "clone_url_ssh", "description",
                          "is_private"} : a[f] = b[f]
            /\ c.fn = "update_status" =>
                   /\ a.status = CloneStatusToString(c.status)
                   /\ a.local_path = b.local_path
                   /\ a.last_pulled_at = b.last_pulled_at
            /\ c.fn = "set_local_path" =>
                   /\ a.local_path = Some(c.path)
                   /\ a.status = b.status
                   /\ a.last_pulled_at = b.last_pulled_at
            /\ c.fn = "update_pulled_at" =>
                   /\ a.last_pulled_at # None
                   /\ a.last_pulled_at[1] >= c.at
                   /\ a.last_pulled_at[1] <= now
                   /\ a.status = b.status
                   /\ a.local_path = b.local_path

\* set_local_path was called, at a later time, on a record that had failed
\* and had been pulled before
C25_Witness ==
    /\ ucall # None
    /\ ucall[1].fn = "set_local_path"
    /\ ucall[1].before.status = "error"
    /\ ucall[1].before.last_pulled_at # None
    /\ ucall[1].before.local_path # Some(ucall[1].path)
    /\ uret[1].updated_at > ucall[1].before.updated_at
    /\ uret[1].updated_at > uret[1].created_at

\* C27: if discovery fails in a sync command (including failure while
\* discovering the k-th organization in clone-all-orgs after earlier
\* organizations succeeded), the whole command aborts with an error: no
\* record is created in the store and no clone is attempted.
C27_DiscoveryFailureAborts ==
    [][\A p \in Procs :
         /\ (/\ pc[p] = "idle"
             /\ IsSync(cmd'[p])
             /\ (start'[p].failAt # 0 \/ start'[p].err = "discovery"))
            => /\ pc'[p] = "failed"
               /\ start'[p].err = "discovery"
               /\ store' = store
               /\ fs' = fs
               /\ repos'[p] = << >>
               /\ creates'[p] = 0
               /\ outcome'[p] = << >>
         /\ (pc[p] = "failed" /\ start[p].err = "discovery")
            => /\ pc'[p] = "idle"
               /\ store' = store
               /\ fs' = fs]_vars

\* clone-all-orgs on GitLab failed at the listing of the second group, after
\* the listing of the first group had been read to its empty page, with rows
\* of earlier commands in the store
C27_Witness ==
    /\ pc[1] = "failed"
    /\ cmd[1].kind = "clone-all-orgs"
    /\ ProviderFromStr(cmd[1].provider) = Some("GitLab")
    /\ start[1].failAt = 4
    /\ start[1].reqs = 4
    /\ start[1].err = "discovery"
    /\ store # {}
    /\ creates[1] = 0

\* C28: a store failure at any store operation of a sync or pull-all command
\* (lookup, create, or the per-repository update after a clone or pull)
\* aborts the command with an error: no later repository of the batch is
\* cloned or pulled, and rows already written keep their values.
C28_StoreFailureAborts ==
    [][\A p \in Procs :
         (IsSync(cmd[p]) \/ cmd[p].kind = "pull-all") =>
            /\ (AtStoreOperation(p) /\ pc'[p] = "failed")
               => /\ store' = store
                  /\ fs' = fs
                  /\ outcome'[p] = outcome[p]
            /\ (pc[p] = "failed" /\ start[p].err = "")
               => /\ pc'[p] = "idle"
                  /\ store' = store
                  /\ fs' = fs]_vars

\* a sync command ended on a store failure after it had created two rows and
\* cloned the first record: the first row is cloned, the second as created
C28_Witness ==
    /\ pc[1] = "failed"
    /\ IsSync(cmd[1])
    /\ start[1].err = ""
    /\ creates[1] = 2
    /\ Len(outcome[1]) = 1
    /\ outcome[1][1].ok
    /\ \E r \in store : r.status = "cloned" /\ r.local_path # None
    /\ \E r \in store : r.status = "not_cloned" /\ r.local_path = None

\* C29: clone-mine and clone-all-orgs fail with an error when no token is
\* configured for the selected provider, and in that case perform no
\* discovery request, create no store row and attempt no clone.
C29_NoTokenNoDiscovery ==
    [][\A p \in Procs :
         LET c == cmd'[p]
             parsed == ProviderFromStr(c.provider)
         IN  /\ (/\ pc[p] = "idle"
                 /\ c.kind \in {"clone-mine", "clone-all-orgs"}
                 /\ parsed # None
                 /\ (IF parsed[1] = "GitHub" THEN c.github_token ELSE c.gitlab_token) = None)
                => /\ pc'[p] = "failed"
                   /\ start'[p].err = "token"
                   /\ start'[p].reqs = 0
                   /\ store' = store
                   /\ fs' = fs
                   /\ repos'[p] = << >>
                   /\ creates'[p] = 0
                   /\ outcome'[p] = << >>
             /\ (pc[p] = "failed" /\ start[p].err = "token")
                => /\ pc'[p] = "idle"
                   /\ store' = store
                   /\ fs' = fs]_vars

\* clone-mine on GitLab was refused for its missing GitLab token while a
\* GitHub token was configured and rows of earlier commands were stored
C29_Witness ==
    /\ pc[1] = "failed"
    /\ cmd[1].kind = "clone-mine"
    /\ ProviderFromStr(cmd[1].provider) = Some("GitLab")
    /\ cmd[1].gitlab_token = None
    /\ cmd[1].github_token # None
    /\ start[1].err = "token"
    /\ start[1].reqs = 0
    /\ store # {}

\* C30: when at least one repository of a sync or pull-all batch fails to
\* clone or pull, the command ends with a failure result (non-zero
\* process-level indication) after finishing the batch.
C30_FailureExitsNonZero ==
    \A p \in Procs :
        (pc[p] = "done" /\ (IsSync(cmd[p]) \/ cmd[p].kind = "pull-all"))
            => \A i \in 1..Len(outcome[p]) : outcome[p][i].ok

\* C31: a sync command reports exactly one outcome (success with
\* destination, or failure with detail) per discovered record, in the order
\* the records were discovered, and the clone attempts happen in that same
\* order, all after the persist phase has finished for every record.
C31_OrderedOutcomes ==
    /\ [](\A p \in Procs :
            /\ SyncEnded(p) =>
                  /\ Len(outcome[p]) = Len(repos[p])
                  /\ \A i \in 1..Len(repos[p]) :
                        /\ outcome[p][i].path = get_repo_path(repos[p][i])
                        /\ ~outcome[p][i].ok => outcome[p][i].err # ""
            /\ (IsSync(cmd[p]) /\ pc[p] \in {"lookup", "create"}) =>
                  outcome[p] = << >> /\ res[p] = None)
    /\ [][\A p \in Procs :
            (IsSync(cmd[p]) /\ pc[p] = "clone" /\ pc'[p] # "clone") =>
               /\ idx[p] = Len(outcome[p]) + 1
               /\ res'[p] # None
               /\ res'[p][1].path = get_repo_path(repos[p][idx[p]])
               /\ AllStored(store, repos[p])]_vars

\* a sync of two records ended: the clone of the first failed, the clone of
\* the second succeeded, and the two outcomes are in that order
C31_Witness ==
    /\ SyncEnded(1)
    /\ Len(repos[1]) = 2
    /\ Len(outcome[1]) = 2
    /\ ~outcome[1][1].ok
    /\ outcome[1][1].path = get_repo_path(repos[1][1])
    /\ outcome[1][2].ok
    /\ outcome[1][2].path = get_repo_path(repos[1][2])
    /\ outcome[1][1].path # outcome[1][2].path

\* C32: clone-by-name with a full_name that is not in the store surfaces a
\* not-found failure to the caller, invokes no clone, and leaves the store
\* unchanged (no row is created).
C32_UnknownNameFails ==
    [][\A p \in Procs :
         (/\ cmd[p].kind = "clone"
          /\ pc[p] = "byname"
          /\ pc'[p] # "byname"
          /\ RowsNamed(cmd[p].arg) = {})
            => /\ pc'[p] = "failed"
               /\ store' = store
               /\ fs' = fs
               /\ res'[p] = None
               /\ outcome'[p] = << >>]_vars

\* the parts of C32 that do not depend on the result of the command: no
\* clone is invoked and the store is left as it was
C32_UnknownNameTouchesNothing ==
    [][\A p \in Procs :
         (/\ cmd[p].kind = "clone"
          /\ pc[p] = "byname"
          /\ pc'[p] # "byname"
          /\ RowsNamed(cmd[p].arg) = {})
            => /\ pc'[p] \in {"done", "failed"}
               /\ store' = store
               /\ fs' = fs
               /\ res'[p] = None
               /\ outcome'[p] = << >>]_vars

\* whether the text s is the word w with each letter in upper or lower case
IsCasingOf(s, w) ==
    /\ Len(s) = Len(w)
    /\ \A i \in 1..Len(w) : s[i] = w[i] \/ s[i] = UpperChar(w[i])

\* C33: provider parsing is case-insensitive and round-trips: for each
\* provider p, parse(to_string(p)) = p; any casing of github or gitlab parses
\* to the matching provider; every other string yields an error.
C33_ParseCaseInsensitive ==
    uret # None =>
        LET c == ucall[1]
            github == <<"g", "i", "t", "h", "u", "b">>
            gitlab == <<"g", "i", "t", "l", "a", "b">>
        IN  /\ c.fn = "to_string" => uret[1].parsed = Some(c.p)
            /\ c.fn = "from_str" =>
                  /\ IsCasingOf(c.s, github) => uret[1].parsed = Some("GitHub")
                  /\ IsCasingOf(c.s, gitlab) => uret[1].parsed = Some("GitLab")
                  /\ (~IsCasingOf(c.s, github) /\ ~IsCasingOf(c.s, gitlab)) =>
                        uret[1].parsed = None

\* GiTLaB was parsed to GitLab
C33_Witness ==
    /\ uret # None
    /\ ucall[1].fn = "from_str"
    /\ ucall[1].s = <<"G", "i", "T", "L", "a", "B">>
    /\ uret[1].parsed = Some("GitLab")

\* C34: every record built by Repository::new (and so every record returned
\* by discovery) has status not_cloned, no local_path, no last_pulled_at, a
\* non-empty id, created_at equal to updated_at, and carries the given name,
\* full_name, owner, provider and privacy flag unchanged.
C34_NewRecord ==
    uret # None =>
        LET c == ucall[1]
            x == c.item
            r == uret[1]
        IN  /\ r.status = "not_cloned"
            /\ r.local_path = None
            /\ r.last_pulled_at = None
            /\ r.id = nextId
            /\ r.id >= 1
            /\ r.created_at = r.updated_at
            /\ r.created_at = now
            /\ r.name = x.name
            /\ r.description = x.description
            /\ c.fn = "new" =>
                  /\ r.full_name = x.full_name
                  /\ r.owner = x.owner
                  /\ r.provider = (IF x.provider = "GitHub" THEN "github" ELSE "gitlab")
                  /\ r.is_private = x.is_private
                  /\ r.clone_url_https = x.clone_url_https
                  /\ r.clone_url_ssh = x.clone_url_ssh
            /\ c.fn = "github" =>
                  /\ r.full_name = x.full_name
                  /\ r.owner = x.owner
                  /\ r.provider = "github"
                  /\ r.clone_url_https = x.clone_url
                  /\ r.clone_url_ssh = x.ssh_url
            /\ c.fn = "gitlab" =>
                  /\ r.full_name = x.path_with_namespace
                  /\ r.owner = x.namespace
                  /\ r.provider = "gitlab"
                  /\ r.clone_url_https = x.http_url_to_repo
                  /\ r.clone_url_ssh = x.ssh_url_to_repo

\* Repository::new built a private GitLab record with a description, at a
\* time later than 0 and with an id later than the first
C34_Witness ==
    /\ uret # None
    /\ ucall[1].fn = "new"
    /\ ucall[1].item.provider = "GitLab"
    /\ ucall[1].item.is_private
    /\ ucall[1].item.description # None
    /\ uret[1].is_private
    /\ uret[1].created_at > 0
    /\ uret[1].id > 1

\* C35: privacy mapping at discovery: a GitLab project is mapped to
\* is_private = false exactly when its visibility string equals public and
\* to is_private = true for every other visibility value; a GitHub
\* repository's is_private equals its private boolean.
C35_PrivacyMapping ==
    uret # None =>
        /\ ucall[1].fn = "gitlab" =>
              /\ uret[1].is_private \in BOOLEAN
              /\ uret[1].is_private = FALSE <=> ucall[1].item.visibility = "public"
        /\ ucall[1].fn = "github" => uret[1].is_private = ucall[1].item.private

\* a GitLab project of visibility internal was mapped to a private record
C35_Witness ==
    /\ uret # None
    /\ ucall[1].fn = "gitlab"
    /\ ucall[1].item.visibility = "internal"
    /\ uret[1].is_private

\* C36: the list command with the cloned flag set shows only records whose
\* stored status is cloned, also when a provider filter is given at the same
\* time (then only cloned records of that provider).
C36_ClonedFlagShowsCloned ==
    (uret # None /\ ucall[1].cloned) =>
        \A i \in 1..Len(uret[1]) :
            /\ uret[1][i].status = "cloned"
            /\ ucall[1].provider # None => uret[1][i].provider = ucall[1].provider[1]

\* the part of C36 without a provider filter: list --cloned shows the cloned
\* records, all of them and no other
C36_ClonedAloneShowsCloned ==
    (uret # None /\ ucall[1].cloned /\ ucall[1].provider = None) =>
        /\ \A i \in 1..Len(uret[1]) : uret[1][i].status = "cloned"
        /\ \A r \in store : r.status = "cloned" => \E i \in 1..Len(uret[1]) : uret[1][i] = r

\* C37: in every store state reachable through the pipeline commands, every
\* record with status cloned has a non-null local_path, so pull-all, which
\* silently skips Cloned records without a local_path, never skips a record.
C37_ClonedHasPath ==
    /\ \A r \in store : r.status = "cloned" => r.local_path # None
    /\ \A p \in Procs :
          (cmd[p].kind = "pull-all" /\ pc[p] \in {"pull", "pulled"}) =>
              /\ Current(p).status = "cloned"
              /\ Current(p).local_path # None

\* pull-all is at its second record, while the store holds two cloned rows
\* with their paths
C37_Witness ==
    /\ cmd[1].kind = "pull-all"
    /\ pc[1] = "pull"
    /\ idx[1] = 2
    /\ Len(repos[1]) = 2
    /\ Len(outcome[1]) = 1
    /\ Cardinality({r \in store : r.status = "cloned" /\ r.local_path # None}) = 2

\* C38: pull-all never changes a record's stored status or local_path, under
\* every interleaving with a concurrent clone-by-name on the same record: a
\* status written by the clone between pull-all's initial load and its
\* per-record update is still the stored status after pull-all's update.
C38_PullAllKeepsStatus ==
    [][\A p \in Procs :
         (cmd[p].kind = "pull-all" /\ pc[p] \in {"pull", "pulled"} /\ pc'[p] # pc[p]) =>
            \A r \in store : \A r2 \in store' :
                r2.id = r.id => r2.status = r.status /\ r2.local_path = r.local_path]_vars

\* C39: in the interactive list, after any sequence of key inputs (navigate
\* up/down, filter changes, refresh, delete), the selection is either none or
\* an index smaller than the number of displayed records; Down from the last
\* record wraps to the first and Up from the first wraps to the last.
C39_SelectionInRange ==
    /\ [](app # None =>
            (app[1].selected = None \/ app[1].selected[1] < Len(app[1].repos)))
    /\ [][(app # None /\ app[1].repos # << >> /\ app[1].selected # None) =>
            /\ (app'[1].key = "Down" /\ app[1].selected[1] = Len(app[1].repos) - 1)
                  => app'[1].selected = Some(0)
            /\ (app'[1].key = "Up" /\ app[1].selected[1] = 0)
                  => app'[1].selected = Some(Len(app[1].repos) - 1)]_vars

\* C39 while records are displayed: the selection is an index of the list,
\* Down and Up wrap around
C39_SelectionInRangeOfRecords ==
    /\ [](app # None =>
            (\/ app[1].selected = None
             \/ app[1].selected[1] < Len(app[1].repos)
             \/ app[1].repos = << >>))
    /\ [](app # None /\ app[1].repos # << >> => app[1].selected # None)
    /\ [][(app # None /\ app[1].repos # << >> /\ app[1].selected # None) =>
            /\ (app'[1].key = "Down" /\ app[1].selected[1] = Len(app[1].repos) - 1)
                  => app'[1].selected = Some(0)
            /\ (app'[1].key = "Up" /\ app[1].selected[1] = 0)
                  => app'[1].selected = Some(Len(app[1].repos) - 1)]_vars

====
